---- MODULE Spec2Model ----
(***************************************************************************)
(* Conclave of Many Agents (COMA): the hook router of claude-coma.js, the  *)
(* validator of coma-validator.js (parse, classify, select, fan out, join, *)
(* consensus) and the remote-API / process-spawning providers it drives.   *)
(***************************************************************************)
EXTENDS Integers, Sequences, FiniteSets, TLC

(* ------------------------------------------------------------------ *)
(* Bounds                                                              *)
(* ------------------------------------------------------------------ *)
MaxAcolytes == 3
MaxResults == 3
MaxWords == 2
MaxChunks == 2
MaxFairAcolytes == 2
MaxStores == 7
MaxRunStores == 2
MaxCalls == 2
MaxCallChunks == 1
MaxSessionStores == 3
MaxValidations == 2

(* ------------------------------------------------------------------ *)
(* Paths: a path is a sequence of segments; an absolute path is the    *)
(* sequence of segments below the filesystem root.                     *)
(* ------------------------------------------------------------------ *)
RepoRoot == <<"repo">>
SubDir == <<"repo", "sub">>

RECURSIVE normalize(_)
\* path.resolve / path.normalize on segments: "." is dropped, ".." pops.
normalize(segs) ==
  IF segs = <<>> THEN <<>>
  ELSE LET init == normalize(SubSeq(segs, 1, Len(segs) - 1))
           last == segs[Len(segs)]
       IN IF last = "." THEN init
          ELSE IF last = ".."
               THEN (IF init = <<>> THEN <<>> ELSE SubSeq(init, 1, Len(init) - 1))
               ELSE Append(init, last)

\* path.resolve(filePath): an absolute path is normalised, a relative one is
\* taken from the process's working directory.
resolve(workdir, fp) ==
  IF fp.kind = "abs" THEN normalize(fp.segs) ELSE normalize(workdir \o fp.segs)

RECURSIVE commonLen(_, _)
commonLen(a, b) ==
  IF a = <<>> \/ b = <<>> THEN 0
  ELSE IF Head(a) = Head(b) THEN 1 + commonLen(Tail(a), Tail(b)) ELSE 0

\* path.relative(from, to) for two absolute normalised paths.
relative(from, to) ==
  LET c == commonLen(from, to)
  IN [i \in 1..(Len(from) - c) |-> ".."] \o SubSeq(to, c + 1, Len(to))

\* ComaValidator.relativizePath
relativizePath(repo, workdir, fp) == relative(repo, resolve(workdir, fp))

(* ------------------------------------------------------------------ *)
(* Inputs                                                              *)
(* ------------------------------------------------------------------ *)
HookTypes == {"PreToolUse", "PostToolUse", "UserPromptSubmit", "Stop"}
NoPath == [kind |-> "absent", segs |-> <<>>]
\* parameters.file_path: absent, a truthy non-string, or a path string.
FilePaths ==
  { NoPath,
    [kind |-> "nonstring", segs |-> <<>>],
    [kind |-> "rel", segs |-> <<"a.txt">>],
    [kind |-> "rel", segs |-> <<"b.txt">>],
    [kind |-> "rel", segs |-> <<"..", "a.txt">>],
    [kind |-> "abs", segs |-> <<"repo", "a.txt">>],
    [kind |-> "abs", segs |-> <<"repo", "sub", "a.txt">>] }
NoPayload == [form |-> "none", toolName |-> "", fp |-> NoPath]
\* The payload argument: none, a JSON object, the JSON value null, or a
\* string that is not JSON (its text is then taken as the tool name).
Payloads ==
  {NoPayload, [form |-> "null", toolName |-> "", fp |-> NoPath]}
  \cup {[form |-> "raw", toolName |-> t, fp |-> NoPath] : t \in {"Edit", "Read"}}
  \cup {[form |-> "object", toolName |-> t, fp |-> f] :
          t \in {"Edit", "MultiEdit", "Write"}, f \in FilePaths}
  \cup {[form |-> "object", toolName |-> "Bash", fp |-> NoPath]}
  \cup {[form |-> "object", toolName |-> "Read", fp |-> f] :
          f \in {NoPath, [kind |-> "rel", segs |-> <<"a.txt">>]}}

\* Scopes a critic of acolytes.json can carry in its `file` field.
Scopes == {<<"a.txt">>, <<"sub", "a.txt">>, <<"*.txt">>, <<"all">>}
RECURSIVE SeqsUpTo(_, _)
SeqsUpTo(S, n) ==
  IF n = 0 THEN {<<>>}
  ELSE LET shorter == SeqsUpTo(S, n - 1)
       IN shorter \cup {Append(q, x) : q \in {r \in shorter : Len(r) = n - 1}, x \in S}
\* acolytes.json as setupAcolytes writes it: entry i has id i and a file.
AcolyteList(files) == [i \in 1..Len(files) |-> [id |-> i, file |-> files[i]]]
AcolyteLists == {AcolyteList(fs) : fs \in SeqsUpTo(Scopes, MaxAcolytes)}

\* Raw reviewer responses, as the sequence of their words.
Responses ==
  { <<"APPROVE">>, <<"REJECT">>, <<"REJECT", "APPROVE">>,
    <<"NEEDS_CONTEXT">>, <<"prose">> }
Failures == { <<"timed out">> }

\* Reviewer texts word by word, every order of the keywords included.
Words == {"APPROVE", "REJECT", "NEEDS_CONTEXT", "prose"}
Texts == SeqsUpTo(Words, MaxWords)
\* Pieces of standard output of a reviewer process; " " is white space.
Chunks == {"APPROVE", "REJECT", " "}
\* Exit codes a 'close' event carries; "null" for a process ended by a signal.
ExitCodes == {"0", "1", "null"}

\* Payload arguments of the context capturer: none, null, not JSON, an object
\* without text and an object with a text field.
CapturerPayloads ==
  { NoPayload,
    [form |-> "null", toolName |-> "", fp |-> NoPath],
    [form |-> "raw", toolName |-> "Edit", fp |-> NoPath],
    [form |-> "object", toolName |-> "Edit", fp |-> NoPath],
    [form |-> "object", toolName |-> "Edit", fp |-> NoPath, text |-> <<"prose">>] }
\* COMA_HOOK_TYPE as the capturer can find it when the host starts it itself.
CapturerHookTypes == {"PostToolUse", "UserPromptSubmit", "absent"}

(* ------------------------------------------------------------------ *)
(* Pure functions of the validator and the providers                   *)
(* ------------------------------------------------------------------ *)
NoToolData == [present |-> FALSE, toolName |-> "", fp |-> NoPath]

\* ComaValidator.parseToolCall
parseToolCall(argv) ==
  IF argv.form = "none" THEN NoToolData
  ELSE IF argv.form = "null" THEN NoToolData
  ELSE IF argv.form = "object"
       THEN [present |-> TRUE, toolName |-> argv.toolName, fp |-> argv.fp]
       ELSE [present |-> TRUE, toolName |-> argv.toolName, fp |-> NoPath]

modificationTools == {"Edit", "MultiEdit", "Write", "Bash"}
\* Mutant: Read is taken for a modification.
isModificationOperationWithRead(td) == td.toolName \in modificationTools \cup {"Read"}

\* ComaValidator.isModificationOperation
isModificationOperation(td) == td.toolName \in modificationTools

\* ComaValidator.getAffectedFiles: path.resolve raises a TypeError on a
\* file_path that is not a string.
getAffectedFilesThrows(td) ==
  td.toolName \in {"Edit", "MultiEdit", "Write"} /\ td.fp.kind = "nonstring"
getAffectedFiles(td, repo, workdir) ==
  IF td.toolName \in {"Edit", "MultiEdit", "Write"}
  THEN IF td.fp.kind \in {"abs", "rel"}
       THEN [all |-> FALSE, files |-> <<relativizePath(repo, workdir, td.fp)>>]
       ELSE [all |-> FALSE, files |-> <<>>]
  ELSE IF td.toolName = "Bash"
       THEN [all |-> TRUE, files |-> <<>>]
       ELSE [all |-> FALSE, files |-> <<>>]

includes(seq, x) == \E i \in DOMAIN seq : seq[i] = x

\* Mutant: a critic scoped "all" is relevant to every file.
selectRelevantWithAll(affected, acos) ==
  IF affected.all THEN acos
  ELSE SelectSeq(acos, LAMBDA a : includes(affected.files, a.file) \/ a.file = <<"all">>)

\* validate, "Filter to relevant acolytes"
selectRelevant(affected, acos) ==
  IF affected.all THEN acos
  ELSE SelectSeq(acos, LAMBDA a : includes(affected.files, a.file))

\* String.prototype.trim on a text given piece by piece: white space at both
\* ends is removed.
RECURSIVE trimStart(_)
trimStart(text) ==
  IF text # <<>> /\ Head(text) = " " THEN trimStart(Tail(text)) ELSE text
RECURSIVE trimEnd(_)
trimEnd(text) ==
  IF text # <<>> /\ text[Len(text)] = " "
  THEN trimEnd(SubSeq(text, 1, Len(text) - 1)) ELSE text
trim(text) == trimEnd(trimStart(text))

\* OpenAIProvider.parseResponse
parseResponse(output) ==
  LET cleanOutput == trim(output)
  IN IF includes(cleanOutput, "APPROVE")
     THEN [decision |-> "APPROVE", reasoning |-> cleanOutput]
     ELSE IF includes(cleanOutput, "REJECT")
     THEN [decision |-> "REJECT", reasoning |-> cleanOutput]
     ELSE IF includes(cleanOutput, "NEEDS_CONTEXT")
     THEN [decision |-> "NEEDS_CONTEXT", reasoning |-> cleanOutput]
     ELSE [decision |-> "UNCLEAR", reasoning |-> cleanOutput]

\* Mutant: decisions outside APPROVE / REJECT / ERROR no longer block.
evaluateConsensusIgnoringUnknown(rs) ==
  LET approvals == SelectSeq(rs, LAMBDA r : r.decision = "APPROVE")
      rejections == SelectSeq(rs, LAMBDA r : r.decision = "REJECT")
      errors == SelectSeq(rs, LAMBDA r : r.decision = "ERROR")
  IN IF Len(rejections) > 0
     THEN [approved |-> FALSE, rule |-> "rejection", count |-> Len(rejections), listed |-> rejections]
     ELSE IF Len(errors) > 0
     THEN [approved |-> FALSE, rule |-> "error", count |-> Len(errors), listed |-> errors]
     ELSE [approved |-> TRUE, rule |-> "unanimous", count |-> Len(approvals), listed |-> <<>>]

\* Mutant: errors no longer block.
evaluateConsensusIgnoringErrors(rs) ==
  LET approvals == SelectSeq(rs, LAMBDA r : r.decision = "APPROVE")
      rejections == SelectSeq(rs, LAMBDA r : r.decision = "REJECT")
      unknown == SelectSeq(rs, LAMBDA r : r.decision \notin {"APPROVE", "REJECT", "ERROR"})
  IN IF Len(rejections) > 0
     THEN [approved |-> FALSE, rule |-> "rejection", count |-> Len(rejections), listed |-> rejections]
     ELSE IF Len(unknown) > 0
     THEN [approved |-> FALSE, rule |-> "unknown", count |-> Len(unknown), listed |-> unknown]
     ELSE [approved |-> TRUE, rule |-> "unanimous", count |-> Len(approvals), listed |-> <<>>]

\* Mutant: errors are looked at before rejections.
evaluateConsensusErrorsFirst(rs) ==
  LET approvals == SelectSeq(rs, LAMBDA r : r.decision = "APPROVE")
      rejections == SelectSeq(rs, LAMBDA r : r.decision = "REJECT")
      errors == SelectSeq(rs, LAMBDA r : r.decision = "ERROR")
      unknown == SelectSeq(rs, LAMBDA r : r.decision \notin {"APPROVE", "REJECT", "ERROR"})
  IN IF Len(errors) > 0
     THEN [approved |-> FALSE, rule |-> "error", count |-> Len(errors), listed |-> errors]
     ELSE IF Len(rejections) > 0
     THEN [approved |-> FALSE, rule |-> "rejection", count |-> Len(rejections), listed |-> rejections]
     ELSE IF Len(unknown) > 0
     THEN [approved |-> FALSE, rule |-> "unknown", count |-> Len(unknown), listed |-> unknown]
     ELSE [approved |-> TRUE, rule |-> "unanimous", count |-> Len(approvals), listed |-> <<>>]

\* Mutant: the first result that is not an approval decides alone.
evaluateConsensusFirstDecides(rs) ==
  LET approvals == SelectSeq(rs, LAMBDA r : r.decision = "APPROVE")
      others == SelectSeq(rs, LAMBDA r : r.decision # "APPROVE")
      first == SelectSeq(others, LAMBDA r : r.decision = others[1].decision)
  IN IF Len(others) = 0
     THEN [approved |-> TRUE, rule |-> "unanimous", count |-> Len(approvals), listed |-> <<>>]
     ELSE IF others[1].decision = "REJECT"
     THEN [approved |-> FALSE, rule |-> "rejection", count |-> Len(first), listed |-> first]
     ELSE IF others[1].decision = "ERROR"
     THEN [approved |-> FALSE, rule |-> "error", count |-> Len(first), listed |-> first]
     ELSE [approved |-> FALSE, rule |-> "unknown", count |-> Len(first), listed |-> first]

\* ComaValidator.evaluateConsensus (coma-validator.js)
evaluateConsensus(rs) ==
  LET approvals == SelectSeq(rs, LAMBDA r : r.decision = "APPROVE")
      rejections == SelectSeq(rs, LAMBDA r : r.decision = "REJECT")
      errors == SelectSeq(rs, LAMBDA r : r.decision = "ERROR")
      unknown == SelectSeq(rs, LAMBDA r : r.decision \notin {"APPROVE", "REJECT", "ERROR"})
  IN IF Len(rejections) > 0
     THEN [approved |-> FALSE, rule |-> "rejection", count |-> Len(rejections), listed |-> rejections]
     ELSE IF Len(errors) > 0
     THEN [approved |-> FALSE, rule |-> "error", count |-> Len(errors), listed |-> errors]
     ELSE IF Len(unknown) > 0
     THEN [approved |-> FALSE, rule |-> "unknown", count |-> Len(unknown), listed |-> unknown]
     ELSE [approved |-> TRUE, rule |-> "unanimous", count |-> Len(approvals), listed |-> <<>>]

\* ComaValidator.evaluateConsensus, the earlier version kept in claude-coma.js:
\* it counts APPROVE, REJECT, NEEDS_CONTEXT and ERROR only.
evaluateConsensusEarlier(rs) ==
  LET approvals == SelectSeq(rs, LAMBDA r : r.decision = "APPROVE")
      rejections == SelectSeq(rs, LAMBDA r : r.decision = "REJECT")
      needsContext == SelectSeq(rs, LAMBDA r : r.decision = "NEEDS_CONTEXT")
      errors == SelectSeq(rs, LAMBDA r : r.decision = "ERROR")
  IN IF Len(rejections) > 0
     THEN [approved |-> FALSE, rule |-> "rejection", count |-> Len(rejections), listed |-> rejections]
     ELSE IF Len(needsContext) > 0
     THEN [approved |-> FALSE, rule |-> "context", count |-> Len(needsContext), listed |-> needsContext]
     ELSE IF Len(errors) > 0
     THEN [approved |-> FALSE, rule |-> "error", count |-> Len(errors), listed |-> errors]
     ELSE [approved |-> TRUE, rule |-> "unanimous", count |-> Len(approvals), listed |-> <<>>]

NoDecision == [approved |-> FALSE, rule |-> "none", count |-> 0, listed |-> <<>>]

\* The provider classes: the methods an instance offers.
providerMethods(p) ==
  IF p = "openai" THEN {"consultAcolyte", "performConsultation", "parseResponse"}
  ELSE IF p = "claude-code" THEN {"consultAgent"}
  ELSE {}

(* ------------------------------------------------------------------ *)
(* Context buffer (context-manager.js)                                 *)
(* ------------------------------------------------------------------ *)
\* The buffer keeps 5 entries of at most 2000 characters; a cut entry ends
\* with the marker '...[truncated]'.
MaxMessages == 5
MaxMessageLength == 2000
TruncationMarkerLength == 14

\* A message is told by its number and its length in characters; an entry
\* holds the first `kept` characters of a message, then the marker if marked.
MessageLengths == {1, 2000, 2001, 2503}
NoEntry == [id |-> 0, kept |-> 0, marked |-> FALSE]
entryLength(e) == e.kept + (IF e.marked THEN TruncationMarkerLength ELSE 0)

\* Mutant: the marker is appended to the first 2000 characters.
truncateAfterLimit(m) ==
  IF m.len <= MaxMessageLength
  THEN [id |-> m.id, kept |-> m.len, marked |-> FALSE]
  ELSE [id |-> m.id, kept |-> MaxMessageLength, marked |-> TRUE]

\* storeMessage, the truncation of a long message
truncate(m) ==
  IF m.len <= MaxMessageLength
  THEN [id |-> m.id, kept |-> m.len, marked |-> FALSE]
  ELSE [id |-> m.id, kept |-> MaxMessageLength - TruncationMarkerLength, marked |-> TRUE]

\* COMA_CONTEXT_0 .. COMA_CONTEXT_4 of the process environment
ContextSlots == 0..(MaxMessages - 1)
NoContext == [i \in ContextSlots |-> NoEntry]

RECURSIVE readSlots(_, _)
readSlots(env, i) ==
  IF i \notin ContextSlots THEN <<>>
  ELSE IF env[i] = NoEntry THEN readSlots(env, i + 1)
  ELSE <<env[i]>> \o readSlots(env, i + 1)

\* ContextManager.getStoredMessages: the set variables, newest first
getStoredMessages(env) == readSlots(env, 0)

writeSlots(msgs) ==
  [i \in ContextSlots |-> IF i < Len(msgs) THEN msgs[i + 1] ELSE NoEntry]

\* Mutant: the oldest entry is not evicted once the buffer is full.
storeMessageKeepingOldest(env, m) ==
  LET old == getStoredMessages(env)
      kept == IF Len(old) < MaxMessages THEN old
              ELSE SubSeq(old, 1, MaxMessages - 2) \o <<old[MaxMessages]>>
  IN writeSlots(<<truncate(m)>> \o kept)

\* ContextManager.storeMessage: the new entry goes first, the 5 newest stay
storeMessage(env, m) ==
  LET msgs == <<truncate(m)>> \o getStoredMessages(env)
  IN writeSlots(SubSeq(msgs, 1, IF Len(msgs) < MaxMessages THEN Len(msgs) ELSE MaxMessages))

\* Mutant: COMA_CONTEXT_0 alone is deleted.
clearContextFirstOnly(env) == [env EXCEPT ![0] = NoEntry]

\* ContextManager.clearContext: every COMA_CONTEXT_n is deleted
clearContext(env) == NoContext

\* The ContextManager instances of one process.
Managers == {1, 2}

\* Mutant: only the first instance writes to the environment; another
\* instance keeps what it is given to itself.
managerStorePrivate(mgr, env, m) == IF mgr = 1 THEN storeMessage(env, m) ELSE env

\* manager.storeMessage(text) on an instance: the buffer is the environment
\* of the process, the instance holds no message.
managerStore(mgr, env, m) == storeMessage(env, m)

\* manager.getStoredMessages() on an instance
messagesVia(mgr, env) == getStoredMessages(env)

\* ContextManager.getContextForAcolytes: the numbered list, or the fixed text
getContextForAcolytes(env) ==
  LET msgs == getStoredMessages(env)
  IN IF msgs = <<>> THEN [text |-> "No recent context available.", items |-> <<>>]
     ELSE [text |-> "Recent Claude responses:", items |-> msgs]

(* ------------------------------------------------------------------ *)
(* The user's settings file and the hooks in it                        *)
(* ------------------------------------------------------------------ *)
\* Hook events a settings file can name.
EventNames == {"PreToolUse", "PostToolUse", "UserPromptSubmit", "Stop"}
\* The events the launchers install a hook for.
ComaEvents == {"PreToolUse", "PostToolUse", "UserPromptSubmit"}

\* The command of the hook entry an event has, by who wrote the entry: the
\* user, the temporary-hook launcher, ensureHooksInstalled, or the user for
\* a `claude-coma` on the PATH. A command is its text in pieces.
commandOf(owner, event) ==
  IF owner = "user" THEN <<"lint">>
  ELSE IF owner = "temp"
  THEN (IF event = "PreToolUse" THEN <<"coma-validator", ".js">>
        ELSE <<"COMA_HOOK_TYPE=", event, " ", "node", " ", "context-capturer", ".js">>)
  ELSE IF owner = "coma"
  THEN <<"node", " ", "claude-coma", ".js", " ", "hook", " ", event>>
  ELSE IF owner = "bin" THEN <<"claude-coma", " ", "hook", " ", event>>
  ELSE <<>>

\* String.prototype.includes on texts in pieces
stringIncludes(text, part) ==
  \E i \in 0..(Len(text) - Len(part)) : SubSeq(text, i + 1, i + Len(part)) = part

\* ensureHooksInstalled, hasComaHooks: a PreToolUse entry whose command
\* includes 'claude-coma hook'
hasComaHooks(hooks) ==
  stringIncludes(commandOf(hooks["PreToolUse"], "PreToolUse"), <<"claude-coma", " ", "hook">>)

NoHooks == [e \in EventNames |-> "none"]
\* No settings file; read, it gives the empty object.
NoFile ==
  [exists |-> FALSE, other |-> FALSE, mcps |-> FALSE, hasHooks |-> FALSE,
   hooks |-> NoHooks, comaActive |-> FALSE]

\* Settings files the launcher can find: none, or an object with or without
\* another key, `mcps`, `hooks` (per event an entry of the user, of either
\* launcher, or none) and the `_comaActive` marker of the temporary launcher.
HookObjects ==
  { h \in [EventNames -> {"none", "user", "temp", "coma", "bin"}] :
      /\ h["Stop"] \in {"none", "user"}
      /\ h["UserPromptSubmit"] \in {"none", h["PostToolUse"]}
      /\ h["PostToolUse"] \in {"none", "user", h["PreToolUse"]}
      /\ h["PostToolUse"] # "bin" }
SettingsFiles ==
  {NoFile}
  \cup { [exists |-> TRUE, other |-> o, mcps |-> m, hasHooks |-> FALSE,
          hooks |-> NoHooks, comaActive |-> FALSE] : o, m \in BOOLEAN }
  \cup { [exists |-> TRUE, other |-> o, mcps |-> m, hasHooks |-> TRUE,
          hooks |-> h, comaActive |-> h["PreToolUse"] = "temp"] :
            o, m \in BOOLEAN, h \in HookObjects }

\* JSON.parse of the file read, `{}` when it cannot be read
readSettings(file) == IF file.exists THEN file ELSE NoFile
\* fs.writeFile(path, JSON.stringify(object))
writeSettings(object) == [object EXCEPT !.exists = TRUE]
\* An object has no key left.
noKeys(object) ==
  ~object.other /\ ~object.mcps /\ ~object.hasHooks /\ ~object.comaActive

\* installHooks of the temporary-hook launcher: what it writes to
\* settings.json and to settings.backup.json
tempHooks == [e \in EventNames |-> IF e \in ComaEvents THEN "temp" ELSE "none"]
installedSettings(file) ==
  writeSettings([readSettings(file) EXCEPT !.hasHooks = TRUE, !.hooks = tempHooks,
                                           !.comaActive = TRUE])
installedBackup(file, old) ==
  IF readSettings(file).hasHooks \/ readSettings(file).mcps
  THEN writeSettings(readSettings(file)) ELSE old

\* removeHooks: the backup is restored when there is one; without a backup a
\* file marked _comaActive loses hooks, mcps and the marker, and is deleted
\* when nothing is left.
removedSettings(file, bak) ==
  IF bak.exists THEN bak
  ELSE IF file.exists /\ file.comaActive
  THEN LET cleaned == [file EXCEPT !.hasHooks = FALSE, !.hooks = NoHooks,
                                   !.mcps = FALSE, !.comaActive = FALSE]
       IN IF noKeys(cleaned) THEN NoFile ELSE cleaned
  ELSE file

\* ensureHooksInstalled: the merged settings, `{...userSettings, hooks:
\* {...userSettings.hooks, ...comaHooks}}`
mergedSettings(file) ==
  writeSettings([readSettings(file) EXCEPT
                   !.hasHooks = TRUE,
                   !.hooks = [e \in EventNames |->
                                IF e \in ComaEvents THEN "coma"
                                ELSE readSettings(file).hooks[e]]])

(* ------------------------------------------------------------------ *)
(* State                                                               *)
(* ------------------------------------------------------------------ *)
VARIABLES
  entry,            \* script the host started: "hook" (claude-coma.js hook ...) or "validator"
  hookType,         \* args[0] of the hook subcommand
  payload,          \* payload argument given to the started script
  comaFlag,         \* process.env.CLAUDE_COMA as the router read it
  rpc,              \* router position
  rexit,            \* router exit status (-1 while running)
  capturerSpawned,  \* the router spawned context-capturer.js
  vpc,              \* validator position
  vargv,            \* process.argv.slice(2) of the validator process
  vexit,            \* validator exit status (-1 while running)
  configDir,        \* this.configDir
  provider,         \* this.provider
  repoPath,         \* this.repoPath
  cwd,              \* process.cwd() of the validator
  toolData,         \* result of parseToolCall
  affectedFiles,    \* result of getAffectedFiles
  configReads,      \* number of reads of acolytes.json
  acolytes,         \* loaded critic list
  relevantAcolytes, \* selected critics
  calls,            \* ids of the critics handed to the provider, in call order
  results,          \* per selected critic: its result, or PENDING
  decision,         \* result of evaluateConsensus
  thrown,           \* an exception reached the catch of validate
  cpc,              \* context capturer position
  cargv,            \* process.argv.slice(2) of the capturer process
  cexit,            \* capturer exit status (-1 while running)
  stored,           \* texts the capturer handed to storeMessage
  response,         \* raw reviewer text given to parseResponse
  decisionEarlier,  \* result of the earlier evaluateConsensus
  pvariant,         \* provider whose consult operation was called
  ppromise,         \* the promise the consult operation returned
  pvalue,           \* value or failure message the promise settled with
  ptimer,           \* the timer of the consult operation
  pproc,            \* the reviewer process, or the API request
  pcode,            \* exit code the 'close' event carried
  poutput,          \* standard output collected so far
  ctxEnv,           \* COMA_CONTEXT_n of the process environment
  ctxLog,           \* messages given to storeMessage since the last clearContext
  ctxStores,        \* number of storeMessage calls so far
  ctxLast,          \* last operation on the context buffer
  ctxVia,           \* the ContextManager instance the last operation went through
  claudeContext,    \* consultAcolytes: the context it read
  callContexts,     \* claudeContext each provider call was given
  contextReads,     \* number of getContextForAcolytes calls of the validator
  pinst,            \* a provider instance: its class and its fields
  pcalls,           \* per consult call on pinst: the locals of that call
  sessionEnv,       \* COMA_CONTEXT_n in the environment of the agent process
  capEnv,           \* COMA_CONTEXT_n in the environment of the last capturer process
  logFile,          \* lines of the debug log file (CLAUDE_COMA_DEBUG), as written
  lpc,              \* launcher position
  settings,         \* ~/.claude/settings.json
  backup,           \* ~/.claude/settings.backup.json
  tempDir,          \* the .coma-temp directory exists
  settingsBefore,   \* settings.json as the launcher found it
  settingsWrites,   \* number of times the launcher wrote settings.json
  overtaken         \* a consultation settled while one before it in the array was pending

vars == <<entry, hookType, payload, comaFlag, rpc, rexit, capturerSpawned,
          vpc, vargv, vexit, configDir, provider, repoPath, cwd, toolData,
          affectedFiles, configReads, acolytes, relevantAcolytes, calls,
          results, decision, thrown, cpc, cargv, cexit, stored, response,
          decisionEarlier, pvariant, ppromise, pvalue, ptimer, pproc, pcode,
          poutput, ctxEnv, ctxLog, ctxStores, ctxLast, ctxVia, claudeContext,
          callContexts, contextReads, pinst, pcalls, overtaken, sessionEnv, capEnv, logFile, lpc, settings,
          backup, tempDir, settingsBefore, settingsWrites>>

routerVars == <<comaFlag, rpc, rexit, capturerSpawned>>
inputVars == <<entry, hookType, payload>>
ctorVars == <<configDir, provider, repoPath, cwd>>
runVars == <<toolData, affectedFiles, configReads, acolytes, relevantAcolytes,
             calls, results, decision, thrown>>

ctxVars == <<ctxEnv, ctxLog, ctxStores, ctxLast, ctxVia>>
snapVars == <<claudeContext, callContexts, contextReads>>
concVars == <<pinst, pcalls>>
joinVars == <<overtaken>>
sessVars == <<sessionEnv, capEnv>>
logVars == <<logFile>>
launchVars == <<lpc, settings, backup, tempDir, settingsBefore, settingsWrites>>
capVars == <<cpc, cargv, cexit, stored>>
parseVars == <<response, decisionEarlier>>
provVars == <<pvariant, ppromise, pvalue, ptimer, pproc, pcode, poutput>>

NoAffected == [all |-> FALSE, files |-> <<>>]
Pending(a) == [acolyteId |-> a.id, file |-> a.file, decision |-> "PENDING", reasoning |-> <<>>]

ValidatorIdle ==
  /\ configDir = "unread" /\ provider = "unread" /\ repoPath = <<>> /\ cwd = <<>>
  /\ toolData = NoToolData /\ affectedFiles = NoAffected /\ configReads = 0
  /\ acolytes = <<>> /\ relevantAcolytes = <<>> /\ calls = <<>> /\ results = <<>>
  /\ decision = NoDecision /\ thrown = FALSE /\ vexit = -1

CapturerIdle == cpc = "off" /\ cargv = NoPayload /\ cexit = -1 /\ stored = <<>>
ParseIdle == response = <<>> /\ decisionEarlier = NoDecision
ProviderIdle ==
  /\ pvariant = "none" /\ ppromise = "idle" /\ pvalue = <<>> /\ ptimer = "off"
  /\ pproc = "none" /\ pcode = "none" /\ poutput = <<>>

NoSnapshot == [text |-> "unread", items |-> <<>>]
ContextIdle ==
  /\ ctxEnv = NoContext /\ ctxLog = <<>> /\ ctxStores = 0 /\ ctxLast = "none"
  /\ ctxVia = 0
SnapIdle == claudeContext = NoSnapshot /\ callContexts = <<>> /\ contextReads = 0
NoInstance == [class |-> "none", repoPath |-> <<>>]
ConcIdle == pinst = NoInstance /\ pcalls = <<>> /\ overtaken = FALSE
LaunchIdle ==
  /\ lpc = "off" /\ settings = NoFile /\ backup = NoFile /\ tempDir = FALSE
  /\ settingsBefore = NoFile /\ settingsWrites = 0
SessIdle == sessionEnv = NoContext /\ capEnv = NoContext /\ logFile = <<>>

\* The host starts either the hook entry point or, as the temporary hooks of
\* installHooks do, the validator or the context capturer itself.
Init ==
  /\ entry \in {"hook", "validator", "capturer"}
  /\ payload \in (IF entry = "capturer" THEN CapturerPayloads ELSE Payloads)
  /\ hookType \in (IF entry = "hook" THEN HookTypes
                   ELSE IF entry = "capturer" THEN CapturerHookTypes
                   ELSE {"PreToolUse"})
  /\ comaFlag = "unread" /\ rexit = -1 /\ capturerSpawned = FALSE
  /\ rpc = (IF entry = "hook" THEN "start" ELSE "off")
  /\ vpc = (IF entry = "validator" THEN "constructor" ELSE "off")
  /\ vargv = (IF entry = "validator" THEN payload ELSE NoPayload)
  /\ cpc = (IF entry = "capturer" THEN "run" ELSE "off")
  /\ cargv = (IF entry = "capturer" THEN payload ELSE NoPayload)
  /\ cexit = -1 /\ stored = <<>>
  /\ ValidatorIdle /\ ParseIdle /\ ProviderIdle /\ ContextIdle /\ SnapIdle /\ ConcIdle /\ SessIdle /\ LaunchIdle

(* ------------------------------------------------------------------ *)
(* Hook router (claude-coma.js)                                        *)
(* ------------------------------------------------------------------ *)
\* Mutant: the activation gate is gone.
transparentNever(flag) == FALSE

\* handleHookCommand, `!process.env.CLAUDE_COMA`: an unset or empty variable.
transparent(flag) == flag \in {"absent", "empty"}

\* CleanComa.handleHookCommand, up to the spawn of the delegate.
handleHookCommand ==
  /\ rpc = "start"
  /\ \E flag \in {"set", "empty", "absent"} :
       /\ comaFlag' = flag
       /\ IF transparent(flag)
          THEN /\ rpc' = "done" /\ rexit' = 0
               /\ UNCHANGED <<capturerSpawned, vpc, vargv, cpc>>
          ELSE IF hookType = "PreToolUse"
          THEN \* handlePreToolUse: spawn('node', [coma-validator.js]) without arguments
               /\ rpc' = "waitValidator" /\ vpc' = "constructor" /\ vargv' = NoPayload
               /\ UNCHANGED <<rexit, capturerSpawned, cpc>>
          ELSE IF hookType \in {"PostToolUse", "UserPromptSubmit"}
          THEN \* handlePostToolUse / handleUserPromptSubmit:
               \* spawn('node', [context-capturer.js]) without arguments,
               \* COMA_HOOK_TYPE set to the hook type
               /\ rpc' = "waitCapturer" /\ capturerSpawned' = TRUE /\ cpc' = "run"
               /\ UNCHANGED <<rexit, vpc, vargv>>
          ELSE /\ rpc' = "done" /\ rexit' = 1
               /\ UNCHANGED <<capturerSpawned, vpc, vargv, cpc>>
  /\ UNCHANGED <<inputVars, launchVars, logVars, sessVars, joinVars, concVars, ctxVars, snapVars, ctorVars, runVars, vexit, cargv, cexit, stored,
                 parseVars, provVars>>

\* The code the 'close' event of the validator child carries: its exit status,
\* or null when a signal ended it.
closeCode(pc, status) ==
  IF pc = "killed" THEN "null" ELSE IF status = 0 THEN "0" ELSE "1"

\* process.exit(code): a null code leaves the exit status at its default, 0.
processExit(code) == IF code = "1" THEN 1 ELSE 0

\* handlePreToolUse, validator.on('close'): exit with the child's code.
validatorClose ==
  /\ rpc = "waitValidator" /\ vpc \in {"done", "killed"}
  /\ rpc' = "done" /\ rexit' = processExit(closeCode(vpc, vexit))
  /\ UNCHANGED <<inputVars, launchVars, logVars, sessVars, joinVars, concVars, ctxVars, snapVars, ctorVars, runVars, comaFlag, capturerSpawned, vpc, vargv, vexit,
                 capVars, parseVars, provVars>>

\* handlePostToolUse / handleUserPromptSubmit, capturer.on('close'): exit
\* with the child's code.
capturerClose ==
  /\ rpc = "waitCapturer" /\ cpc = "done"
  /\ rpc' = "done" /\ rexit' = cexit
  /\ UNCHANGED <<inputVars, launchVars, logVars, sessVars, joinVars, concVars, ctxVars, snapVars, ctorVars, runVars, comaFlag, capturerSpawned, vpc, vargv, vexit,
                 capVars, parseVars, provVars>>

(* ------------------------------------------------------------------ *)
(* Context capturer (context-capturer.js)                              *)
(* ------------------------------------------------------------------ *)
\* `toolData.explanation || toolData.reasoning || toolData.text`
hasText(argv) == argv.form = "object" /\ "text" \in DOMAIN argv

\* The try block of capturePostToolUse / captureUserPromptSubmit raises:
\* JSON.parse on text that is not JSON, a property read on null, or
\* storeMessage failing.
captureThrows(argv, storeThrows) ==
  \/ argv.form \in {"raw", "null"}
  \/ hasText(argv) /\ storeThrows

\* Mutant: the catch block reports the failure through the exit status.
capturerExitFailing(hook, argv, storeThrows) ==
  IF hook \notin {"PostToolUse", "UserPromptSubmit"} THEN 0
  ELSE IF argv.form = "none" THEN 0
  ELSE IF captureThrows(argv, storeThrows) THEN 1
  ELSE 0

\* Exit status of the capturer: the switch on the hook type, the check of
\* args.length, the catch block and the final process.exit(0).
capturerExit(hook, argv, storeThrows) ==
  IF hook \notin {"PostToolUse", "UserPromptSubmit"} THEN 0
  ELSE IF argv.form = "none" THEN 0
  ELSE IF captureThrows(argv, storeThrows) THEN 0
  ELSE 0

\* One run of context-capturer.js.
capture ==
  /\ cpc = "run"
  /\ \E storeThrows \in BOOLEAN :
       /\ cexit' = capturerExit(hookType, cargv, storeThrows)
       /\ stored' = IF /\ hookType \in {"PostToolUse", "UserPromptSubmit"}
                       /\ hasText(cargv) /\ ~storeThrows
                    THEN Append(stored, cargv.text) ELSE stored
  /\ cpc' = "done"
  /\ UNCHANGED <<inputVars, launchVars, logVars, sessVars, joinVars, concVars, ctxVars, snapVars, routerVars, ctorVars, runVars, vpc, vargv, vexit, cargv,
                 parseVars, provVars>>

(* ------------------------------------------------------------------ *)
(* Validator (coma-validator.js)                                       *)
(* ------------------------------------------------------------------ *)
\* Environment of the validator process: COMA_CONFIG_DIR, COMA_PROVIDER
\* (default claude-code), COMA_REPO_PATH (default: the working directory).
ProviderNames == {"claude-code", "openai", "gemini"}
Places == { <<RepoRoot, RepoRoot>>, <<RepoRoot, SubDir>>, <<SubDir, SubDir>> }

\* process.exit(code) reached from inside validate
exitWith(code) == vpc' = "done" /\ vexit' = code

\* Mutant: the catch block lets the operation through.
validateCatchAllowing == exitWith(0) /\ thrown' = TRUE

\* Mutant: the empty selection is not short-circuited.
noReviewNeededNever(rel) == FALSE

\* Mutant: the catch block reports the error and does not exit.
validateCatchSilent == vpc' = "caught" /\ vexit' = vexit /\ thrown' = TRUE

\* ComaValidator.validate, the catch block: report and exit(1).
validateCatch == exitWith(1) /\ thrown' = TRUE

\* validate, `relevantAcolytes.length === 0`: nothing to review.
noReviewNeeded(rel) == Len(rel) = 0

\* Mutant: a run without tool data is reported as a failure.
noToolDataExitBlocking == exitWith(1)

\* validate, `if (!toolData) { ... process.exit(0) }`
noToolDataExit == exitWith(0)

\* ComaValidator.constructor
constructor ==
  /\ vpc = "constructor"
  /\ \E cd \in {"set", "unset"}, p \in ProviderNames, pl \in Places :
       /\ configDir' = cd /\ provider' = p /\ repoPath' = pl[1] /\ cwd' = pl[2]
       /\ IF cd = "unset" THEN exitWith(1)
          ELSE IF p \in {"claude-code", "openai"}
               THEN vpc' = "validate" /\ UNCHANGED vexit
               ELSE exitWith(1)
  /\ UNCHANGED <<inputVars, launchVars, logVars, sessVars, joinVars, concVars, ctxVars, snapVars, routerVars, capVars, parseVars, provVars, runVars, vargv>>

\* ComaValidator.validate, from its entry to the await of loadAcolytes.
validateStart ==
  /\ vpc = "validate"
  /\ LET td == parseToolCall(vargv)
     IN /\ toolData' = td
        /\ IF ~td.present
           THEN noToolDataExit /\ UNCHANGED <<affectedFiles, configReads, thrown>>
           ELSE IF ~isModificationOperation(td)
           THEN exitWith(0) /\ UNCHANGED <<affectedFiles, configReads, thrown>>
           ELSE IF getAffectedFilesThrows(td)
           THEN validateCatch /\ UNCHANGED <<affectedFiles, configReads>>
           ELSE /\ affectedFiles' = getAffectedFiles(td, repoPath, cwd)
                /\ configReads' = configReads + 1
                /\ vpc' = "loading"
                /\ UNCHANGED <<vexit, thrown>>
  /\ UNCHANGED <<inputVars, launchVars, logVars, sessVars, joinVars, concVars, ctxVars, snapVars, routerVars, capVars, parseVars, provVars, ctorVars, vargv, acolytes, relevantAcolytes,
                 calls, results, decision>>

\* What reading and parsing acolytes.json can give.
ConfigContents ==
  {[kind |-> k, list |-> <<>>] : k \in {"unreadable", "badjson", "notarray"}}
  \cup {[kind |-> "array", list |-> l] : l \in AcolyteLists}

\* ComaValidator.consultAcolytes, the synchronous part: one provider call per
\* critic; a provider object without consultAcolyte raises a TypeError in the
\* first map callback, before any call is made.
consultStarts == "consultAcolyte" \in providerMethods(provider)

\* validate resumed by loadAcolytes: filter, short-circuit, fan out; the
\* content of acolytes.json is one of `contents`.
loadAcolytesFrom(contents) ==
  /\ vpc = "loading"
  /\ \E content \in contents :
       IF content.kind # "array"
       THEN /\ validateCatch
            /\ UNCHANGED <<acolytes, relevantAcolytes, calls, results, snapVars>>
       ELSE LET rel == selectRelevant(affectedFiles, content.list)
                \* consultAcolytes: the context is read before the map
                context == getContextForAcolytes(ctxEnv)
            IN /\ acolytes' = content.list
               /\ relevantAcolytes' = rel
               /\ IF noReviewNeeded(rel)
                  THEN exitWith(0) /\ UNCHANGED <<calls, results, thrown, snapVars>>
                  ELSE IF Len(rel) > 0 /\ ~consultStarts
                  THEN /\ validateCatch
                       /\ claudeContext' = context
                       /\ contextReads' = contextReads + 1
                       /\ UNCHANGED <<calls, results, callContexts>>
                  ELSE /\ claudeContext' = context
                       /\ contextReads' = contextReads + 1
                       /\ calls' = [i \in 1..Len(rel) |-> rel[i].id]
                       /\ callContexts' = [i \in 1..Len(rel) |-> context]
                       /\ results' = [i \in 1..Len(rel) |-> Pending(rel[i])]
                       /\ vpc' = "consulting"
                       /\ UNCHANGED <<vexit, thrown>>
  /\ UNCHANGED <<inputVars, launchVars, logVars, sessVars, joinVars, concVars, ctxVars, routerVars, capVars, parseVars, provVars, ctorVars, vargv, toolData, affectedFiles,
                 configReads, decision>>

loadAcolytes == loadAcolytesFrom(ConfigContents)

\* consultAcolytes, the .then callback of one consultation
resolved(a, text) ==
  LET r == parseResponse(text)
  IN [acolyteId |-> a.id, file |-> a.file, decision |-> r.decision, reasoning |-> r.reasoning]
\* consultAcolytes, the .catch callback of one consultation
rejected(a, message) ==
  [acolyteId |-> a.id, file |-> a.file, decision |-> "ERROR", reasoning |-> message]

\* Mutant: the provider reads the context buffer itself when it builds the
\* instruction.
contextReceivedLive(given, env) == getContextForAcolytes(env)

\* The provider's `toolData.claudeContext`: the string it was handed.
contextReceived(given, env) == given

\* Mutant: the values are collected in the order the promises settle.
fulfilInCompletionOrder(rs, i, r) ==
  LET slot == CHOOSE j \in DOMAIN rs :
                /\ rs[j].decision = "PENDING"
                /\ \A k \in 1..(j - 1) : rs[k].decision # "PENDING"
  IN [rs EXCEPT ![slot] = r]

\* Promise.all: the value of the i-th promise of the array becomes the i-th
\* element of the array it resolves with.
fulfil(rs, i, r) == [rs EXCEPT ![i] = r]

\* One consultation settles: the provider, having built its instruction from
\* the context it was given, resolves with a parsed response or rejects
\* (timeout, transport error).
settle ==
  /\ vpc = "consulting"
  /\ \E i \in DOMAIN results :
       /\ results[i].decision = "PENDING"
       /\ overtaken' = (overtaken \/ \E j \in 1..(i - 1) : results[j].decision = "PENDING")
       /\ callContexts' = [callContexts EXCEPT ![i] = contextReceived(callContexts[i], ctxEnv)]
       /\ \/ \E text \in Responses :
               results' = fulfil(results, i, resolved(relevantAcolytes[i], text))
          \/ \E message \in Failures :
               results' = fulfil(results, i, rejected(relevantAcolytes[i], message))
  /\ UNCHANGED <<inputVars, launchVars, logVars, sessVars, concVars, ctxVars, claudeContext, contextReads, routerVars, capVars, parseVars, provVars, ctorVars, vpc, vargv, vexit, toolData,
                 affectedFiles, configReads, acolytes, relevantAcolytes, calls,
                 decision, thrown>>

\* Mutant: the join gives up on the first failed consultation.
joinedOrFailed(rs) ==
  \/ \A i \in DOMAIN rs : rs[i].decision # "PENDING"
  \/ \E i \in DOMAIN rs : rs[i].decision = "ERROR"

\* consultAcolytes, `await Promise.all(promises)`: every wrapped promise has
\* been fulfilled (the .catch wrappers never reject).
joined(rs) == \A i \in DOMAIN rs : rs[i].decision # "PENDING"

\* validate resumed by Promise.all: consensus and exit.
join ==
  /\ vpc = "consulting"
  /\ joined(results)
  /\ decision' = evaluateConsensus(results)
  /\ exitWith(IF decision'.approved THEN 0 ELSE 1)
  /\ UNCHANGED <<inputVars, launchVars, logVars, sessVars, joinVars, concVars, ctxVars, snapVars, routerVars, capVars, parseVars, provVars, ctorVars, vargv, toolData, affectedFiles,
                 configReads, acolytes, relevantAcolytes, calls, results, thrown>>

Next ==
  \/ handleHookCommand
  \/ validatorClose
  \/ capturerClose
  \/ capture
  \/ constructor
  \/ validateStart
  \/ loadAcolytes
  \/ settle
  \/ join

Spec == Init /\ [][Next]_vars

(* ------------------------------------------------------------------ *)
(* Runs of the validator under a fair scheduler                        *)
(* ------------------------------------------------------------------ *)
\* Critic lists of at most MaxFairAcolytes critics over two scopes.
FairScopes == {<<"a.txt">>, <<"all">>}
FairConfigContents ==
  {[kind |-> k, list |-> <<>>] : k \in {"unreadable", "badjson", "notarray"}}
  \cup {[kind |-> "array", list |-> AcolyteList(fs)] :
          fs \in SeqsUpTo(FairScopes, MaxFairAcolytes)}

InitValidator == Init /\ entry = "validator"

loadAcolytesFair == loadAcolytesFrom(FairConfigContents)

NextValidator ==
  \/ constructor
  \/ validateStart
  \/ loadAcolytesFair
  \/ settle
  \/ join

\* The event loop runs every continuation that is ready, and every started
\* consultation settles (the provider's timer sees to it).
SpecValidatorFair ==
  /\ InitValidator /\ [][NextValidator]_vars
  /\ WF_vars(constructor) /\ WF_vars(validateStart) /\ WF_vars(loadAcolytesFair)
  /\ WF_vars(settle) /\ WF_vars(join)

(* ------------------------------------------------------------------ *)
(* evaluateConsensus on its own: every result collection up to         *)
(* MaxResults entries is evaluated once.                               *)
(* ------------------------------------------------------------------ *)
Decisions == {"APPROVE", "REJECT", "ERROR", "NEEDS_CONTEXT", "UNCLEAR"}
ResultOf(i, d) ==
  [acolyteId |-> i, file |-> <<"a.txt">>, decision |-> d, reasoning |-> <<"prose">>]
ResultLists ==
  {[i \in 1..Len(ds) |-> ResultOf(i, ds[i])] : ds \in SeqsUpTo(Decisions, MaxResults)}

InitConsensus ==
  /\ entry = "validator" /\ payload = NoPayload /\ hookType = "PreToolUse"
  /\ comaFlag = "unread" /\ rexit = -1 /\ capturerSpawned = FALSE /\ rpc = "off"
  /\ vpc = "evaluate" /\ vargv = NoPayload /\ vexit = -1
  /\ configDir = "unread" /\ provider = "unread" /\ repoPath = <<>> /\ cwd = <<>>
  /\ toolData = NoToolData /\ affectedFiles = NoAffected /\ configReads = 0
  /\ acolytes = <<>> /\ relevantAcolytes = <<>> /\ calls = <<>>
  /\ decision = NoDecision /\ thrown = FALSE
  /\ results \in ResultLists
  /\ CapturerIdle /\ ParseIdle /\ ProviderIdle /\ ContextIdle /\ SnapIdle /\ ConcIdle /\ SessIdle /\ LaunchIdle

evaluate ==
  /\ vpc = "evaluate"
  /\ decision' = evaluateConsensus(results)
  /\ vpc' = "evaluated"
  /\ UNCHANGED <<inputVars, launchVars, logVars, sessVars, joinVars, concVars, ctxVars, snapVars, routerVars, capVars, parseVars, provVars, ctorVars, vargv, vexit, toolData, affectedFiles,
                 configReads, acolytes, relevantAcolytes, calls, results, thrown>>

NextConsensus == evaluate

SpecConsensus == InitConsensus /\ [][NextConsensus]_vars

(* ------------------------------------------------------------------ *)
(* parseResponse followed by both versions of evaluateConsensus        *)
(* ------------------------------------------------------------------ *)
\* A critic's raw text arrives while the results of earlier critics are held.
InitParse ==
  /\ entry = "validator" /\ payload = NoPayload /\ hookType = "PreToolUse"
  /\ comaFlag = "unread" /\ rexit = -1 /\ capturerSpawned = FALSE /\ rpc = "off"
  /\ vpc = "parse" /\ vargv = NoPayload /\ vexit = -1
  /\ configDir = "unread" /\ provider = "unread" /\ repoPath = <<>> /\ cwd = <<>>
  /\ toolData = NoToolData /\ affectedFiles = NoAffected /\ configReads = 0
  /\ acolytes = <<>> /\ relevantAcolytes = <<>> /\ calls = <<>>
  /\ decision = NoDecision /\ thrown = FALSE
  /\ results \in {rs \in ResultLists : Len(rs) < MaxResults}
  /\ response \in Texts /\ decisionEarlier = NoDecision
  /\ CapturerIdle /\ ProviderIdle /\ ContextIdle /\ SnapIdle /\ ConcIdle /\ SessIdle /\ LaunchIdle

\* The provider parses the text, consultAcolytes wraps it into the critic's
\* result, and each version of evaluateConsensus judges the collection.
parseAndEvaluate ==
  /\ vpc = "parse"
  /\ LET a == [id |-> Len(results) + 1, file |-> <<"a.txt">>]
         rs == Append(results, resolved(a, response))
     IN /\ results' = rs
        /\ decision' = evaluateConsensus(rs)
        /\ decisionEarlier' = evaluateConsensusEarlier(rs)
  /\ vpc' = "parsed"
  /\ UNCHANGED <<inputVars, launchVars, logVars, sessVars, joinVars, concVars, ctxVars, snapVars, routerVars, ctorVars, capVars, provVars, vargv, vexit,
                 toolData, affectedFiles, configReads, acolytes, relevantAcolytes,
                 calls, thrown, response>>

NextParse == parseAndEvaluate

SpecParse == InitParse /\ [][NextParse]_vars

(* ------------------------------------------------------------------ *)
(* One call of a provider's consult operation                          *)
(* ------------------------------------------------------------------ *)
\* ClaudeCodeProvider.consultAgent (claude-code.js), its earlier form
\* ClaudeCodeProvider.consultAcolyte, and OpenAIProvider.consultAcolyte.
ProcessVariants == {"claude-code", "claude-code-earlier"}
ProviderVariants == ProcessVariants \cup {"openai"}

\* Mutant: the consult operation arms no timer.
setTimeoutOmitted == "off"

\* `setTimeout(() => reject(...), 60000)` / `..., 30000)`: the timer is armed.
setTimeout == "armed"

\* clearTimeout(timeout): an armed timer will not fire; a fired one stays fired.
clearTimeout(t) == IF t = "armed" THEN "cleared" ELSE t

\* Mutant: only a positive exit code counts as failure.
closeRejectsPositive(code) == code = "1"

\* 'close' handler, `code !== 0`: null (ended by a signal) differs from 0 too.
closeRejects(code) == code # "0"

\* Mutant: a later resolve or reject overrides the state of the promise.
settleStateLast(p, state) == state

\* resolve / reject of a promise: only the first call settles it.
settleState(p, state) == IF p = "pending" THEN state ELSE p
settleValue(p, old, value) == IF p = "pending" THEN value ELSE old

\* What a successful process consultation resolves with: the trimmed output
\* (consultAgent) or its parse (earlier consultAcolyte).
closeValue(variant, output) ==
  IF variant = "claude-code" THEN trim(output) ELSE parseResponse(output)

\* `response.choices[0]?.message?.content || "No response"`
contentOrDefault(content) == IF content = <<>> THEN <<"No response">> ELSE content

InitProvider ==
  /\ entry = "validator" /\ payload = NoPayload /\ hookType = "PreToolUse"
  /\ comaFlag = "unread" /\ rexit = -1 /\ capturerSpawned = FALSE /\ rpc = "off"
  /\ vpc = "provider" /\ vargv = NoPayload
  /\ ValidatorIdle /\ CapturerIdle /\ ParseIdle /\ ProviderIdle /\ ContextIdle /\ SnapIdle /\ ConcIdle /\ SessIdle /\ LaunchIdle

\* The consult operation is called: the timer is armed, then the instruction
\* is built and the reviewer process spawned (or the request sent). A failure
\* in between is caught and rejects at once in the process variants; in the
\* remote variant it rejects the consultation promise of the race.
consult ==
  /\ ppromise = "idle"
  /\ \E variant \in ProviderVariants, started \in BOOLEAN :
       /\ pvariant' = variant
       /\ IF started
          THEN /\ ppromise' = "pending" /\ pproc' = "running"
               /\ ptimer' = setTimeout /\ pvalue' = pvalue
          ELSE /\ ppromise' = "rejected" /\ pproc' = "none"
               /\ ptimer' = (IF variant \in ProcessVariants
                             THEN clearTimeout(setTimeout) ELSE setTimeout)
               /\ pvalue' = <<"failed to start">>
  /\ UNCHANGED <<inputVars, launchVars, logVars, sessVars, joinVars, concVars, ctxVars, snapVars, routerVars, ctorVars, runVars, capVars, parseVars,
                 vpc, vargv, vexit, pcode, poutput>>

\* claudeProcess.stdout.on('data'): output += data
stdoutData ==
  /\ pvariant \in ProcessVariants /\ pproc = "running"
  /\ Len(poutput) < MaxChunks
  /\ \E chunk \in Chunks : poutput' = Append(poutput, chunk)
  /\ UNCHANGED <<inputVars, launchVars, logVars, sessVars, joinVars, concVars, ctxVars, snapVars, routerVars, ctorVars, runVars, capVars, parseVars,
                 vpc, vargv, vexit, pvariant, ppromise, pvalue, ptimer, pproc, pcode>>

\* claudeProcess.on('close'): after a spawn failure the code is not 0.
processClose ==
  /\ pvariant \in ProcessVariants /\ pproc \in {"running", "errored"}
  /\ \E code \in ExitCodes :
       /\ pproc = "errored" => code # "0"
       /\ pcode' = code
       /\ IF closeRejects(code)
          THEN /\ ppromise' = settleState(ppromise, "rejected")
               /\ pvalue' = settleValue(ppromise, pvalue, <<"agent failed">>)
          ELSE /\ ppromise' = settleState(ppromise, "resolved")
               /\ pvalue' = settleValue(ppromise, pvalue, closeValue(pvariant, poutput))
  /\ pproc' = "closed"
  /\ ptimer' = clearTimeout(ptimer)
  /\ UNCHANGED <<inputVars, launchVars, logVars, sessVars, joinVars, concVars, ctxVars, snapVars, routerVars, ctorVars, runVars, capVars, parseVars,
                 vpc, vargv, vexit, pvariant, poutput>>

\* claudeProcess.on('error'): the process could not be spawned.
processError ==
  /\ pvariant \in ProcessVariants /\ pproc = "running" /\ poutput = <<>>
  /\ pproc' = "errored"
  /\ ptimer' = clearTimeout(ptimer)
  /\ ppromise' = settleState(ppromise, "rejected")
  /\ pvalue' = settleValue(ppromise, pvalue, <<"failed to spawn">>)
  /\ UNCHANGED <<inputVars, launchVars, logVars, sessVars, joinVars, concVars, ctxVars, snapVars, routerVars, ctorVars, runVars, capVars, parseVars,
                 vpc, vargv, vexit, pvariant, pcode, poutput>>

\* OpenAIProvider.performConsultation: the completion arrives and is parsed.
requestReturns ==
  /\ pvariant = "openai" /\ pproc = "running"
  /\ \E content \in Responses \cup {<<>>} :
       /\ poutput' = content
       /\ pvalue' = settleValue(ppromise, pvalue, parseResponse(contentOrDefault(content)))
  /\ ppromise' = settleState(ppromise, "resolved")
  /\ pproc' = "closed"
  /\ UNCHANGED <<inputVars, launchVars, logVars, sessVars, joinVars, concVars, ctxVars, snapVars, routerVars, ctorVars, runVars, capVars, parseVars,
                 vpc, vargv, vexit, pvariant, ptimer, pcode>>

\* OpenAIProvider.performConsultation, catch: `throw new Error('OpenAI API error')`
requestFails ==
  /\ pvariant = "openai" /\ pproc = "running"
  /\ pproc' = "errored"
  /\ ppromise' = settleState(ppromise, "rejected")
  /\ pvalue' = settleValue(ppromise, pvalue, <<"OpenAI API error">>)
  /\ UNCHANGED <<inputVars, launchVars, logVars, sessVars, joinVars, concVars, ctxVars, snapVars, routerVars, ctorVars, runVars, capVars, parseVars,
                 vpc, vargv, vexit, pvariant, ptimer, pcode, poutput>>

\* The timer callback: reject with the time-out error.
timerFires ==
  /\ ptimer = "armed"
  /\ ptimer' = "fired"
  /\ ppromise' = settleState(ppromise, "rejected")
  /\ pvalue' = settleValue(ppromise, pvalue, <<"timed out">>)
  /\ UNCHANGED <<inputVars, launchVars, logVars, sessVars, joinVars, concVars, ctxVars, snapVars, routerVars, ctorVars, runVars, capVars, parseVars,
                 vpc, vargv, vexit, pvariant, pproc, pcode, poutput>>

NextProvider ==
  \/ consult
  \/ stdoutData
  \/ processClose
  \/ processError
  \/ requestReturns
  \/ requestFails
  \/ timerFires

SpecProvider == InitProvider /\ [][NextProvider]_vars

\* The event loop runs an armed timer's callback once its delay has passed.
SpecProviderFair == SpecProvider /\ WF_vars(timerFires)

(* ------------------------------------------------------------------ *)
(* A validator run while the context buffer is written                 *)
(* ------------------------------------------------------------------ *)
\* The capture collaborator stores a message while the validator runs.
storeWhileRunning ==
  /\ vpc \in {"constructor", "validate", "loading", "consulting"}
  /\ ctxStores < MaxRunStores
  /\ LET m == [id |-> ctxStores + 1, len |-> 1]
     IN /\ ctxEnv' = storeMessage(ctxEnv, m)
        /\ ctxLog' = Append(ctxLog, m)
  /\ ctxStores' = ctxStores + 1
  /\ ctxLast' = "store"
  /\ UNCHANGED <<inputVars, launchVars, logVars, sessVars, joinVars, concVars, snapVars, routerVars, ctorVars, runVars, capVars,
                 parseVars, provVars, vpc, vargv, vexit, ctxVia>>

NextSnapshot ==
  \/ constructor
  \/ validateStart
  \/ loadAcolytesFair
  \/ settle
  \/ join
  \/ storeWhileRunning

SpecSnapshot == InitValidator /\ [][NextSnapshot]_vars

(* ------------------------------------------------------------------ *)
(* Calls on the context buffer of one process                          *)
(* ------------------------------------------------------------------ *)
InitContext ==
  /\ entry = "validator" /\ payload = NoPayload /\ hookType = "PreToolUse"
  /\ comaFlag = "unread" /\ rexit = -1 /\ capturerSpawned = FALSE /\ rpc = "off"
  /\ vpc = "context" /\ vargv = NoPayload
  /\ ValidatorIdle /\ CapturerIdle /\ ParseIdle /\ ProviderIdle /\ ContextIdle /\ SnapIdle /\ ConcIdle /\ SessIdle /\ LaunchIdle

\* contextManager.storeMessage(text) with the next message, of some length
storeMessageCall ==
  /\ vpc = "context" /\ ctxStores < MaxStores
  /\ \E len \in MessageLengths, mgr \in Managers :
       LET m == [id |-> ctxStores + 1, len |-> len]
       IN /\ ctxEnv' = managerStore(mgr, ctxEnv, m)
          /\ ctxLog' = Append(ctxLog, m)
          /\ ctxVia' = mgr
  /\ ctxStores' = ctxStores + 1
  /\ ctxLast' = "store"
  /\ UNCHANGED <<inputVars, launchVars, logVars, sessVars, joinVars, concVars, snapVars, routerVars, ctorVars, runVars, capVars,
                 parseVars, provVars, vpc, vargv, vexit>>

\* contextManager.clearContext()
clearContextCall ==
  /\ vpc = "context"
  /\ \E mgr \in Managers : ctxVia' = mgr
  /\ ctxEnv' = clearContext(ctxEnv)
  /\ ctxLog' = <<>>
  /\ ctxLast' = "clear"
  /\ UNCHANGED <<inputVars, launchVars, logVars, sessVars, joinVars, concVars, snapVars, routerVars, ctorVars, runVars, capVars,
                 parseVars, provVars, vpc, vargv, vexit, ctxStores>>

NextContext ==
  \/ storeMessageCall
  \/ clearContextCall

SpecContext == InitContext /\ [][NextContext]_vars

(* ------------------------------------------------------------------ *)
(* Several consult calls in flight on one provider instance            *)
(* ------------------------------------------------------------------ *)
\* Repository paths a provider is constructed with.
InstancePaths == {<<"repo">>, <<"work">>}
\* Pieces of standard output of the reviewer processes of concurrent calls.
CallChunks == {"APPROVE", "REJECT"}

\* The locals of a consult call that has not been made: the promise, the
\* timer, the spawned process with its cwd option and exit code, `output`,
\* and what the call's own reviewer has sent so far.
NoCall ==
  [promise |-> "idle", value |-> <<>>, timer |-> "off", proc |-> "none",
   cwd |-> <<>>, code |-> "none", output |-> <<>>, sent |-> <<>>]

\* `new ClaudeCodeProvider(repoPath)` / `new OpenAIProvider(repoPath)`
newProvider(class, path) == [class |-> class, repoPath |-> path]

\* Mutant: `output` is one buffer of the instance, which every call in flight
\* sees grow.
appendOutputShared(cs, i, data) ==
  [j \in DOMAIN cs |->
     IF j = i \/ cs[j].proc = "running"
     THEN [cs[j] EXCEPT !.output = Append(@, data)] ELSE cs[j]]

\* stdout 'data' handler of call i: `output += data.toString()` on the
\* `let output` of that call.
appendOutput(cs, i, data) == [cs EXCEPT ![i].output = Append(@, data)]

InitConcurrent ==
  /\ entry = "validator" /\ payload = NoPayload /\ hookType = "PreToolUse"
  /\ comaFlag = "unread" /\ rexit = -1 /\ capturerSpawned = FALSE /\ rpc = "off"
  /\ vpc = "calls" /\ vargv = NoPayload
  /\ ValidatorIdle /\ CapturerIdle /\ ParseIdle /\ ProviderIdle /\ ContextIdle /\ SnapIdle
  /\ \E class \in ProviderVariants, path \in InstancePaths :
       pinst = newProvider(class, path)
  /\ pcalls = [i \in 1..MaxCalls |-> NoCall]
  /\ overtaken = FALSE /\ SessIdle /\ LaunchIdle

\* The validator's map calls the consult operation for the next critic: the
\* timer is armed and the reviewer spawned with `cwd: this.repoPath` (or the
\* request sent); a failure before that rejects.
consultCall ==
  /\ pinst # NoInstance
  /\ \E i \in DOMAIN pcalls, started \in BOOLEAN :
       /\ pcalls[i].promise = "idle"
       /\ \A j \in 1..(i - 1) : pcalls[j].promise # "idle"
       /\ pcalls' =
            [pcalls EXCEPT ![i] =
               IF started
               THEN [@ EXCEPT !.promise = "pending", !.proc = "running",
                              !.timer = setTimeout,
                              !.cwd = IF pinst.class \in ProcessVariants
                                      THEN pinst.repoPath ELSE <<>>]
               ELSE [@ EXCEPT !.promise = "rejected",
                              !.value = <<"failed to start">>,
                              !.timer = IF pinst.class \in ProcessVariants
                                        THEN clearTimeout(setTimeout) ELSE setTimeout]]
  /\ UNCHANGED <<inputVars, launchVars, logVars, sessVars, joinVars, pinst, ctxVars, snapVars, routerVars, ctorVars, runVars, capVars,
                 parseVars, provVars, vpc, vargv, vexit>>

\* The reviewer of call i writes to its standard output.
callData ==
  /\ pinst.class \in ProcessVariants
  /\ \E i \in DOMAIN pcalls, data \in CallChunks :
       /\ pcalls[i].proc = "running" /\ Len(pcalls[i].sent) < MaxCallChunks
       /\ pcalls' = appendOutput([pcalls EXCEPT ![i].sent = Append(@, data)], i, data)
  /\ UNCHANGED <<inputVars, launchVars, logVars, sessVars, joinVars, pinst, ctxVars, snapVars, routerVars, ctorVars, runVars, capVars,
                 parseVars, provVars, vpc, vargv, vexit>>

\* 'close' of the reviewer of call i.
callClose ==
  /\ pinst.class \in ProcessVariants
  /\ \E i \in DOMAIN pcalls, code \in ExitCodes :
       /\ pcalls[i].proc \in {"running", "errored"}
       /\ pcalls[i].proc = "errored" => code # "0"
       /\ pcalls' =
            [pcalls EXCEPT ![i] =
               [@ EXCEPT !.proc = "closed", !.code = code,
                         !.timer = clearTimeout(@),
                         !.promise = settleState(@, IF closeRejects(code)
                                                    THEN "rejected" ELSE "resolved"),
                         !.value = settleValue(pcalls[i].promise, @,
                                     IF closeRejects(code) THEN <<"agent failed">>
                                     ELSE closeValue(pinst.class, pcalls[i].output))]]
  /\ UNCHANGED <<inputVars, launchVars, logVars, sessVars, joinVars, pinst, ctxVars, snapVars, routerVars, ctorVars, runVars, capVars,
                 parseVars, provVars, vpc, vargv, vexit>>

\* 'error' of the reviewer of call i: it could not be spawned.
callError ==
  /\ pinst.class \in ProcessVariants
  /\ \E i \in DOMAIN pcalls :
       /\ pcalls[i].proc = "running" /\ pcalls[i].sent = <<>>
       /\ pcalls' =
            [pcalls EXCEPT ![i] =
               [@ EXCEPT !.proc = "errored", !.timer = clearTimeout(@),
                         !.promise = settleState(@, "rejected"),
                         !.value = settleValue(pcalls[i].promise, @, <<"failed to spawn">>)]]
  /\ UNCHANGED <<inputVars, launchVars, logVars, sessVars, joinVars, pinst, ctxVars, snapVars, routerVars, ctorVars, runVars, capVars,
                 parseVars, provVars, vpc, vargv, vexit>>

\* The completion of call i's request arrives and is parsed.
callReturns ==
  /\ pinst.class = "openai"
  /\ \E i \in DOMAIN pcalls, content \in {<<>>, <<"APPROVE">>, <<"REJECT">>} :
       /\ pcalls[i].proc = "running"
       /\ pcalls' =
            [pcalls EXCEPT ![i] =
               [@ EXCEPT !.proc = "closed", !.sent = content, !.output = content,
                         !.promise = settleState(@, "resolved"),
                         !.value = settleValue(pcalls[i].promise, @,
                                     parseResponse(contentOrDefault(content)))]]
  /\ UNCHANGED <<inputVars, launchVars, logVars, sessVars, joinVars, pinst, ctxVars, snapVars, routerVars, ctorVars, runVars, capVars,
                 parseVars, provVars, vpc, vargv, vexit>>

\* The request of call i fails.
callFails ==
  /\ pinst.class = "openai"
  /\ \E i \in DOMAIN pcalls :
       /\ pcalls[i].proc = "running"
       /\ pcalls' =
            [pcalls EXCEPT ![i] =
               [@ EXCEPT !.proc = "errored",
                         !.promise = settleState(@, "rejected"),
                         !.value = settleValue(pcalls[i].promise, @, <<"OpenAI API error">>)]]
  /\ UNCHANGED <<inputVars, launchVars, logVars, sessVars, joinVars, pinst, ctxVars, snapVars, routerVars, ctorVars, runVars, capVars,
                 parseVars, provVars, vpc, vargv, vexit>>

\* The timer of call i fires.
callTimer ==
  /\ \E i \in DOMAIN pcalls :
       /\ pcalls[i].timer = "armed"
       /\ pcalls' =
            [pcalls EXCEPT ![i] =
               [@ EXCEPT !.timer = "fired",
                         !.promise = settleState(@, "rejected"),
                         !.value = settleValue(pcalls[i].promise, @, <<"timed out">>)]]
  /\ UNCHANGED <<inputVars, launchVars, logVars, sessVars, joinVars, pinst, ctxVars, snapVars, routerVars, ctorVars, runVars, capVars,
                 parseVars, provVars, vpc, vargv, vexit>>

NextConcurrent ==
  \/ consultCall
  \/ callData
  \/ callClose
  \/ callError
  \/ callReturns
  \/ callFails
  \/ callTimer

SpecConcurrent == InitConcurrent /\ [][NextConcurrent]_vars

(* ------------------------------------------------------------------ *)
(* The router and a validator child that can be killed or not spawn     *)
(* ------------------------------------------------------------------ *)
InitRouter == Init /\ entry = "hook" /\ hookType = "PreToolUse"

\* A signal ends the validator child before it reaches process.exit.
validatorKilled ==
  /\ rpc = "waitValidator" /\ vpc \in {"constructor", "validate"}
  /\ vpc' = "killed"
  /\ UNCHANGED <<inputVars, launchVars, logVars, sessVars, joinVars, concVars, routerVars, ctxVars, snapVars, ctorVars, runVars, vargv, vexit,
                 capVars, parseVars, provVars>>

\* The validator child cannot be spawned: the child emits 'error', for which
\* handlePreToolUse registers no listener, and the uncaught error ends the
\* router with status 1.
validatorSpawnFails ==
  /\ rpc = "waitValidator" /\ vpc = "constructor"
  /\ vpc' = "unspawned" /\ rpc' = "done" /\ rexit' = 1
  /\ UNCHANGED <<inputVars, launchVars, logVars, sessVars, joinVars, concVars, ctxVars, snapVars, ctorVars, runVars, comaFlag, capturerSpawned,
                 vargv, vexit, capVars, parseVars, provVars>>

NextRouter ==
  \/ handleHookCommand
  \/ constructor
  \/ validateStart
  \/ validatorClose
  \/ validatorKilled
  \/ validatorSpawnFails

SpecRouter == InitRouter /\ [][NextRouter]_vars

(* ------------------------------------------------------------------ *)
(* The hook processes of one protected session                         *)
(* ------------------------------------------------------------------ *)
\* The agent runs with no COMA_CONTEXT_n in its environment; every hook it
\* fires is a new process that starts with a copy of that environment.
InitSession ==
  /\ entry = "validator" /\ payload = NoPayload /\ hookType = "PreToolUse"
  /\ comaFlag = "unread" /\ rexit = -1 /\ capturerSpawned = FALSE /\ rpc = "off"
  /\ vpc = "session" /\ vargv = NoPayload
  /\ ValidatorIdle /\ CapturerIdle /\ ParseIdle /\ ProviderIdle /\ ContextIdle /\ SnapIdle /\ ConcIdle /\ SessIdle /\ LaunchIdle

\* A PostToolUse or UserPromptSubmit hook: a capturer process is started with
\* a text, stores it through its ContextManager and exits.
captureHook ==
  /\ vpc = "session" /\ ctxStores < MaxSessionStores
  /\ \E len \in MessageLengths :
       LET m == [id |-> ctxStores + 1, len |-> len]
       IN /\ capEnv' = storeMessage(sessionEnv, m)
          /\ ctxLog' = Append(ctxLog, m)
  /\ ctxStores' = ctxStores + 1
  /\ ctxLast' = "store"
  /\ UNCHANGED <<inputVars, launchVars, logVars, sessionEnv, joinVars, concVars, snapVars, routerVars, ctorVars, runVars,
                 capVars, parseVars, provVars, vpc, vargv, vexit, ctxEnv, ctxVia>>

\* A PreToolUse hook: a validator process is started and consultAcolytes
\* reads the context from the environment of that process.
validationHook ==
  /\ vpc = "session" /\ contextReads < MaxValidations
  /\ ctxEnv' = sessionEnv
  /\ claudeContext' = getContextForAcolytes(ctxEnv')
  /\ contextReads' = contextReads + 1
  /\ ctxLast' = "read"
  /\ UNCHANGED <<inputVars, launchVars, logVars, sessVars, joinVars, concVars, routerVars, ctorVars, runVars, capVars,
                 parseVars, provVars, vpc, vargv, vexit, ctxLog, ctxStores, ctxVia, callContexts>>

NextSession ==
  \/ captureHook
  \/ validationHook

SpecSession == InitSession /\ [][NextSession]_vars

(* ------------------------------------------------------------------ *)
(* The debug log of a validator run                                    *)
(* ------------------------------------------------------------------ *)
\* The debugLog calls validate has made when it stands at its position, in
\* call order, with CLAUDE_COMA_DEBUG set. A call issues
\* `fs.appendFile(logPath, logEntry)` of fs/promises and returns.
debugLogCalls ==
  LET parsed == <<"Starting validation process", "Parsed tool data">>
      affected == parsed \o <<"Validating operation", "Affected files">>
      selected == affected \o <<"Loaded acolytes", "relevant acolytes selected">>
      started == selected \o <<"Starting consultation", "Starting acolytes in parallel",
                               "Retrieved context">>
      perCritic(n) == [i \in 1..n |-> "Starting consultation with acolyte"]
      settledCount == Cardinality({i \in DOMAIN results : results[i].decision # "PENDING"})
      outcomes == [i \in 1..settledCount |-> "Acolyte decision or error"]
      consulting == started \o perCritic(Len(results)) \o outcomes
  IN IF vpc \in {"constructor", "validate"} THEN <<>>
     ELSE IF vpc = "loading" THEN affected
     ELSE IF vpc = "consulting" THEN consulting
     ELSE IF vpc # "done" \/ configDir # "set" \/ provider \notin {"claude-code", "openai"}
     THEN <<>>
     ELSE IF thrown
     THEN (IF configReads = 0 THEN SubSeq(affected, 1, 3)
           ELSE IF Len(relevantAcolytes) = 0 THEN affected
           ELSE started \o perCritic(1)) \o <<"Validation error">>
     ELSE IF ~toolData.present THEN parsed \o <<"No tool data provided - exiting">>
     ELSE IF ~isModificationOperation(toolData)
     THEN parsed \o <<"not a modification operation - allowing">>
     ELSE IF Len(relevantAcolytes) = 0
     THEN selected \o <<"No acolytes need to review - allowing change">>
     ELSE consulting \o <<"All acolytes completed", "Consultation completed",
                          "Consensus decision">>
          \o (IF decision.approved THEN <<"Change approved - exiting with code 0">>
              ELSE <<"Change blocked">>)

\* validate is suspended in an await and the event loop runs: here only can
\* an append that was issued go on to open the file and write its line.
eventLoopRuns(pc) == pc \in {"loading", "consulting"}

\* The oldest append still outstanding writes its line to the file.
appendCompletes ==
  /\ eventLoopRuns(vpc)
  /\ Len(logFile) < Len(debugLogCalls)
  /\ logFile' = Append(logFile, debugLogCalls[Len(logFile) + 1])
  /\ UNCHANGED <<inputVars, launchVars, sessVars, joinVars, concVars, ctxVars, snapVars, routerVars, ctorVars,
                 runVars, capVars, parseVars, provVars, vpc, vargv, vexit>>

NextDebug ==
  \/ constructor
  \/ validateStart
  \/ loadAcolytesFair
  \/ settle
  \/ join
  \/ appendCompletes

SpecDebug == InitValidator /\ [][NextDebug]_vars

(* ------------------------------------------------------------------ *)
(* The temporary-hook launcher (runWithProtection with installHooks)   *)
(* ------------------------------------------------------------------ *)
IdleButLauncher ==
  /\ entry = "validator" /\ payload = NoPayload /\ hookType = "PreToolUse"
  /\ comaFlag = "unread" /\ rexit = -1 /\ capturerSpawned = FALSE /\ rpc = "off"
  /\ vpc = "launcher" /\ vargv = NoPayload
  /\ ValidatorIdle /\ CapturerIdle /\ ParseIdle /\ ProviderIdle /\ ContextIdle /\ SnapIdle
  /\ pinst = NoInstance /\ pcalls = <<>> /\ overtaken = FALSE
  /\ sessionEnv = NoContext /\ capEnv = NoContext /\ logFile = <<>>

InitTempHooks ==
  /\ IdleButLauncher
  /\ lpc = "install" /\ settings \in SettingsFiles /\ backup = NoFile
  /\ tempDir = FALSE /\ settingsBefore = settings /\ settingsWrites = 0

\* CleanComa.installHooks
installHooks ==
  /\ lpc = "install"
  /\ settings' = installedSettings(settings)
  /\ backup' = installedBackup(settings, backup)
  /\ settingsWrites' = settingsWrites + 1
  /\ lpc' = "protected"
  /\ UNCHANGED <<inputVars, logVars, sessVars, joinVars, concVars, ctxVars, snapVars, routerVars,
                 ctorVars, runVars, capVars, parseVars, provVars, vpc, vargv, vexit,
                 tempDir, settingsBefore>>

\* setupAcolytes and launchClaude of the protected session: the critics are
\* set up and the agent runs and exits, or one of the two fails.
protectedSession ==
  /\ lpc = "protected"
  /\ \E outcome \in {"exited", "launch failed", "setup failed"} :
       tempDir' = (outcome # "setup failed" \/ tempDir)
  /\ lpc' = "remove"
  /\ UNCHANGED <<inputVars, logVars, sessVars, joinVars, concVars, ctxVars, snapVars, routerVars,
                 ctorVars, runVars, capVars, parseVars, provVars, vpc, vargv, vexit,
                 settings, backup, settingsBefore, settingsWrites>>

\* The finally block: removeHooks, then cleanupTemp.
removeHooks ==
  /\ lpc = "remove"
  /\ settings' = removedSettings(settings, backup)
  /\ backup' = (IF backup.exists THEN NoFile ELSE backup)
  /\ tempDir' = FALSE
  /\ lpc' = "removed"
  /\ UNCHANGED <<inputVars, logVars, sessVars, joinVars, concVars, ctxVars, snapVars, routerVars,
                 ctorVars, runVars, capVars, parseVars, provVars, vpc, vargv, vexit,
                 settingsBefore, settingsWrites>>

NextTempHooks ==
  \/ installHooks
  \/ protectedSession
  \/ removeHooks

SpecTempHooks == InitTempHooks /\ [][NextTempHooks]_vars

(* ------------------------------------------------------------------ *)
(* The launcher with permanent hooks (ensureHooksInstalled)            *)
(* ------------------------------------------------------------------ *)
InitLauncher ==
  /\ IdleButLauncher
  /\ lpc = "ensure" /\ settings \in SettingsFiles /\ backup = NoFile
  /\ tempDir = FALSE /\ settingsBefore = settings /\ settingsWrites = 0

\* CleanComa.ensureHooksInstalled
ensureHooksInstalled ==
  /\ lpc = "ensure"
  /\ IF hasComaHooks(readSettings(settings).hooks)
     THEN UNCHANGED <<settings, settingsWrites>>
     ELSE /\ settings' = mergedSettings(settings)
          /\ settingsWrites' = settingsWrites + 1
  /\ lpc' = "setup"
  /\ UNCHANGED <<inputVars, logVars, sessVars, joinVars, concVars, ctxVars, snapVars, routerVars,
                 ctorVars, runVars, capVars, parseVars, provVars, vpc, vargv, vexit,
                 backup, tempDir, settingsBefore>>

\* CleanComa.setupAcolytes: the directory is made, the repository scanned and
\* acolytes.json written; mkdir can fail, and so can the steps after it.
\* runWithProtection awaits it before its try block: on a failure the finally
\* block does not run, and the directory stays if it was made.
setupAcolytes ==
  /\ lpc = "setup"
  /\ \E outcome \in {"done", "mkdir failed", "write failed"} :
       IF outcome = "done"
       THEN tempDir' = TRUE /\ lpc' = "launch"
       ELSE /\ tempDir' = (outcome = "write failed")
            /\ lpc' = "failed"
  /\ UNCHANGED <<inputVars, logVars, sessVars, joinVars, concVars, ctxVars, snapVars, routerVars,
                 ctorVars, runVars, capVars, parseVars, provVars, vpc, vargv, vexit,
                 settings, backup, settingsBefore, settingsWrites>>

\* CleanComa.launchClaude and the finally block with cleanupTemp: the agent
\* exits, or cannot be spawned; either way .coma-temp is removed.
launchClaude ==
  /\ lpc = "launch"
  /\ \E outcome \in {"exited", "launch failed"} :
       lpc' = (IF outcome = "exited" THEN "done" ELSE "failed")
  /\ tempDir' = FALSE
  /\ UNCHANGED <<inputVars, logVars, sessVars, joinVars, concVars, ctxVars, snapVars, routerVars,
                 ctorVars, runVars, capVars, parseVars, provVars, vpc, vargv, vexit,
                 settings, backup, settingsBefore, settingsWrites>>

NextLauncher ==
  \/ ensureHooksInstalled
  \/ setupAcolytes
  \/ launchClaude

SpecLauncher == InitLauncher /\ [][NextLauncher]_vars

(* ------------------------------------------------------------------ *)
(* Properties                                                          *)
(* ------------------------------------------------------------------ *)
MutatingKinds == {"Edit", "MultiEdit", "Write", "Bash"}
FileKinds == {"Edit", "MultiEdit", "Write"}
InSeq(seq, x) == \E i \in DOMAIN seq : seq[i] = x
\* The validator got past its constructor.
Constructed == configDir = "set" /\ provider \in {"claude-code", "openai"}
\* The event handed to the validator is a JSON object of a file-editing kind
\* whose file_path is a path string.
FileEvent ==
  vargv.form = "object" /\ vargv.toolName \in FileKinds /\ vargv.fp.kind \in {"abs", "rel"}
\* acolytes.json was read as a non-empty critic list and selection was made.
Loaded == Len(acolytes) > 0
TxtNames == {"a.txt", "b.txt", "*.txt"}
HasTxtExtension(path) == Len(path) > 0 /\ path[Len(path)] \in TxtNames

\* C1: for a mutating event with at least one selected critic the validator
\* exits 0 only if every selected critic was handed to the provider and its
\* result is APPROVE; any result that is not APPROVE makes it exit 1.
C1_Unanimity ==
  (vpc = "done" /\ toolData.present /\ toolData.toolName \in MutatingKinds
     /\ Len(relevantAcolytes) > 0)
  => /\ vexit \in {0, 1}
     /\ vexit = 0 =>
          /\ Len(calls) = Len(relevantAcolytes)
          /\ Len(results) = Len(relevantAcolytes)
          /\ \A i \in DOMAIN relevantAcolytes :
               /\ calls[i] = relevantAcolytes[i].id
               /\ results[i].acolyteId = relevantAcolytes[i].id
               /\ results[i].decision = "APPROVE"
     /\ (\E i \in DOMAIN results : results[i].decision # "APPROVE") => vexit = 1

\* A Bash event with two critics loaded, both consulted and both approving:
\* the validator has exited 0.
C1_Witness ==
  /\ vpc = "done" /\ vexit = 0 /\ toolData.toolName = "Bash"
  /\ Len(relevantAcolytes) = 2 /\ Len(calls) = 2 /\ Len(results) = 2
  /\ results[1].decision = "APPROVE" /\ results[2].decision = "APPROVE"

\* C2: evaluateConsensus approves exactly the collections in which every
\* result is APPROVE (the empty collection included).
C2_ApprovedIffAllApprove ==
  vpc = "evaluated"
  => (decision.approved <=> \A i \in DOMAIN results : results[i].decision = "APPROVE")

\* An ERROR among approvals, no REJECT: evaluated and not approved.
C2_Witness ==
  /\ vpc = "evaluated" /\ Len(results) = 3 /\ ~decision.approved
  /\ results[1].decision = "APPROVE" /\ results[2].decision = "ERROR"
  /\ results[3].decision = "APPROVE"

\* C3: an exception that reaches validate, an unset configuration directory
\* or an unknown provider name ends the validator with exit status 1.
C3_FailClosed ==
  (vpc = "done" /\ (thrown \/ configDir = "unset" \/ provider = "gemini")) => vexit = 1

\* The critic configuration could not be loaded for a Bash event.
C3_Witness ==
  /\ vpc = "done" /\ thrown /\ vexit = 1 /\ configReads = 1
  /\ toolData.toolName = "Bash" /\ acolytes = <<>>

\* C4: with the flag set, `hook PreToolUse <payload>` reports the validator's
\* verdict on that same payload.
C4_HookReportsValidatorVerdict ==
  (entry = "hook" /\ rpc = "done" /\ comaFlag = "set" /\ hookType = "PreToolUse"
     /\ payload.form = "object" /\ payload.toolName = "Edit"
     /\ payload.fp.kind \in {"abs", "rel"})
  => (vargv = payload /\ rexit = vexit)

\* C5: with the activation flag absent the router exits 0 for every hook type
\* and payload; no validator, no capturer, no critic.
C5_Transparent ==
  comaFlag = "absent"
  => /\ rpc = "done" /\ rexit = 0
     /\ vpc = "off" /\ ~capturerSpawned
     /\ configReads = 0 /\ calls = <<>>

\* A PreToolUse hook for an Edit of a.txt passed through without the flag.
C5_Witness ==
  /\ comaFlag = "absent" /\ rpc = "done" /\ rexit = 0 /\ hookType = "PreToolUse"
  /\ payload.form = "object" /\ payload.toolName = "Edit" /\ payload.fp.kind = "rel"

\* C6: for an event whose kind is not Edit, MultiEdit, Write or Bash, validate
\* exits 0 at once: acolytes.json is not read, no provider call is made.
C6_ReadOnlyAllowed ==
  (Constructed /\ vpc \notin {"off", "constructor", "validate"}
     /\ vargv.form \in {"object", "raw"} /\ vargv.toolName \notin MutatingKinds)
  => /\ vpc = "done" /\ vexit = 0
     /\ configReads = 0 /\ acolytes = <<>> /\ calls = <<>> /\ results = <<>>

\* A Read of a.txt went through the validator.
C6_Witness ==
  /\ vpc = "done" /\ vexit = 0 /\ vargv.form = "object" /\ vargv.toolName = "Read"
  /\ vargv.fp.kind = "rel" /\ toolData.present

\* C7: for a file event the critics consulted are exactly the loaded critics
\* whose scope equals the file, and one result per such critic is collected.
C7_ExactCriticsConsulted ==
  (vpc = "done" /\ FileEvent /\ Loaded)
  => LET expected == SelectSeq(acolytes, LAMBDA a : a.file = affectedFiles.files[1])
     IN /\ calls = [i \in 1..Len(expected) |-> expected[i].id]
        /\ Len(results) = Len(expected)

C9_BashConsultsAll ==
  (vpc = "done" /\ vargv.form = "object" /\ vargv.toolName = "Bash" /\ Loaded)
  => /\ relevantAcolytes = acolytes
     /\ calls = [i \in 1..Len(acolytes) |-> acolytes[i].id]
     /\ Len(results) = Len(acolytes)

\* C10: when selection yields no critic for a mutating event the validator
\* exits 0 and no provider call is made.
C10_NoCriticAllows ==
  (configReads = 1 /\ vpc # "loading" /\ ~thrown /\ Len(relevantAcolytes) = 0)
  => /\ vpc = "done" /\ vexit = 0
     /\ calls = <<>> /\ results = <<>> /\ decision = NoDecision

\* A Write of b.txt with critics loaded, none of them scoped to b.txt.
C10_Witness ==
  /\ vpc = "done" /\ vexit = 0 /\ vargv.toolName = "Write" /\ Len(acolytes) = 2
  /\ affectedFiles.files = << <<"b.txt">> >> /\ relevantAcolytes = <<>> /\ calls = <<>>

\* Exit status of the process the host started, -1 while it runs.
HostExit ==
  IF entry = "hook" THEN rexit ELSE IF entry = "capturer" THEN cexit ELSE vexit
\* The event is a PreToolUse event that reached the pipeline: through the
\* router with the activation flag set, or given to the validator directly.
ActivePreTool ==
  \/ entry = "hook" /\ comaFlag = "set" /\ hookType = "PreToolUse"
  \/ entry = "validator" /\ Constructed
\* A file-editing event without usable resource reference: no file_path, or
\* a payload that is not JSON.
MissingReference ==
  /\ payload.toolName \in FileKinds
  /\ \/ payload.form = "raw"
     \/ payload.form = "object" /\ payload.fp.kind = "absent"

\* C11: an active PreToolUse event of kind Edit, MultiEdit or Write without
\* usable resource reference is blocked: the started process exits non-zero.
C11_MissingReferenceBlocked ==
  (ActivePreTool /\ MissingReference /\ HostExit # -1) => HostExit # 0

\* C12: the validator leaves consultAcolytes only when every selected critic's
\* consultation has settled; a failed one is held as ERROR next to the results
\* of the others, and the verdict is then Block.
C12_JoinWaitsForAll ==
  (vpc = "done" /\ Len(calls) > 0)
  => /\ Len(results) = Len(relevantAcolytes)
     /\ \A i \in DOMAIN results :
          /\ results[i].decision # "PENDING"
          /\ results[i].acolyteId = relevantAcolytes[i].id
     /\ decision # NoDecision
     /\ (\E i \in DOMAIN results : results[i].decision = "ERROR") => vexit = 1

\* The first critic timed out, the second approved: both results are held and
\* the validator has exited 1.
C12_Witness ==
  /\ vpc = "done" /\ vexit = 1 /\ Len(results) = 2
  /\ results[1].decision = "ERROR" /\ results[1].reasoning = <<"timed out">>
  /\ results[2].decision = "APPROVE" /\ decision.rule = "error"

\* C13: whatever way the provider call of a selected critic fails, including
\* an exception raised when the call is made, consultAcolytes returns one
\* settled result per selected critic and raises nothing into validate.
C13_FailuresCaptured ==
  (vpc = "done" /\ Constructed /\ Len(relevantAcolytes) > 0)
  => /\ ~thrown
     /\ Len(results) = Len(relevantAcolytes)
     /\ \A i \in DOMAIN results : results[i].decision # "PENDING"

\* C16: when at least one critic is selected and no selected critic answers
\* anything but APPROVE, the validator exits 0 and reports unanimous approval
\* from exactly the selected critics, with either provider.
C16_AllApproveAllows ==
  (vpc = "done" /\ Constructed /\ Len(relevantAcolytes) > 0
     /\ \A i \in DOMAIN results : results[i].decision = "APPROVE")
  => /\ vexit = 0
     /\ decision.approved /\ decision.rule = "unanimous"
     /\ decision.count = Len(relevantAcolytes)

\* The event is a PostToolUse or UserPromptSubmit event that reached the
\* pipeline: through the router with the activation flag set, or given to the
\* context capturer by the host itself.
ActiveCapture ==
  /\ hookType \in {"PostToolUse", "UserPromptSubmit"}
  /\ \/ entry = "hook" /\ comaFlag = "set"
     \/ entry = "capturer"

C14_RejectBiased ==
  (vpc = "parsed" /\ includes(response, "APPROVE") /\ includes(response, "REJECT"))
  => results[Len(results)].decision = "REJECT"

\* C15: a raw response without any decision keyword is parsed to UNCLEAR, and
\* neither version of evaluateConsensus approves a collection that holds it.
C15_UnclearNeverApproved ==
  (vpc = "parsed" /\ \A w \in {"APPROVE", "REJECT", "NEEDS_CONTEXT"} : ~includes(response, w))
  => /\ results[Len(results)].decision = "UNCLEAR"
     /\ ~decision.approved
     /\ ~decisionEarlier.approved

\* C17: a pending consult call settles, and it has settled at the latest when
\* its timer has fired, whatever the reviewer process or request does.
C17_ConsultSettles ==
  /\ (ppromise = "pending") ~> (ppromise \in {"resolved", "rejected"})
  /\ [](ptimer = "fired" => ppromise \in {"resolved", "rejected"})

\* The timer fired while the reviewer process was still running, and the call
\* was rejected with the time-out error.
C17_Witness ==
  /\ ptimer = "fired" /\ pproc = "running"
  /\ ppromise = "rejected" /\ pvalue = <<"timed out">>

\* Text a resolved process consultation carries.
resolvedText == IF pvariant = "claude-code" THEN pvalue ELSE pvalue.reasoning

\* C18: a process consultation is rejected once the process closed with a
\* code other than 0, could not be spawned, or the timer fired; it is resolved
\* only after a close with code 0 that came before the timer, and then with
\* the trimmed standard output.
C18_ProcessOutcome ==
  pvariant \in ProcessVariants
  => /\ ((pproc = "closed" /\ pcode # "0") \/ pproc = "errored" \/ ptimer = "fired")
          => ppromise = "rejected"
     /\ ppromise = "resolved"
          => /\ pproc = "closed" /\ pcode = "0" /\ ptimer = "cleared"
             /\ resolvedText = trim(poutput)

\* The reviewer printed APPROVE followed by white space and closed with code
\* 0 in time: the call resolved with APPROVE alone.
C18_Witness ==
  /\ pvariant = "claude-code" /\ ppromise = "resolved" /\ ptimer = "cleared"
  /\ poutput = <<"APPROVE", " ">> /\ pvalue = <<"APPROVE">>

\* C19: a run of the validator ends: it reaches process.exit, the status is 0
\* or 1, and after the exit neither the position nor the status changes.
C19_ExactlyOneVerdict ==
  /\ (vpc = "constructor") ~> (vpc = "done")
  /\ [](vexit \in {-1, 0, 1} /\ (vpc = "done" <=> vexit \in {0, 1}))
  /\ [][vpc = "done" => (vpc' = "done" /\ vexit' = vexit)]_vars

\* A run with two critics, one approving and one timed out, has ended with
\* status 1; a verdict was computed once.
C19_Witness ==
  /\ entry = "validator" /\ vpc = "done" /\ vexit = 1
  /\ Len(results) = 2 /\ results[1].decision = "APPROVE"
  /\ results[2].decision = "ERROR" /\ decision.rule = "error"

\* C21 as stated: a validator started without payload argument exits with
\* status 0, without loading or consulting critics.
C21_NoPayloadAllows ==
  (vpc = "done" /\ vargv.form = "none")
  => /\ vexit = 0
     /\ configReads = 0 /\ acolytes = <<>> /\ calls = <<>> /\ results = <<>>

\* C21 amended: a validator started without payload argument exits with
\* status 0 when its constructor accepted the environment and with status 1
\* when the configuration directory is unset or the provider name unknown; in
\* both cases no critic is loaded or consulted.
C21_NoPayloadOutcome ==
  (vpc = "done" /\ vargv.form = "none")
  => /\ vexit = (IF Constructed THEN 0 ELSE 1)
     /\ configReads = 0 /\ acolytes = <<>> /\ calls = <<>> /\ results = <<>>

\* A constructed validator without payload argument has exited 0.
C21_Witness ==
  /\ vpc = "done" /\ vargv.form = "none" /\ Constructed
  /\ ~toolData.present /\ vexit = 0 /\ configReads = 0

\* The n newest messages of a log as entries, newest first.
Newest(log, n) == [i \in 1..n |-> truncate(log[Len(log) + 1 - i])]
Ids(entries) == [i \in 1..Len(entries) |-> entries[i].id]

\* C22: the buffer holds at most 5 entries, and getStoredMessages returns the
\* newest of the messages stored since the last clear, newest first; after
\* messages 1..7 these are 7, 6, 5, 4, 3.
C22_FiveNewestFirst ==
  LET msgs == getStoredMessages(ctxEnv)
      n == IF Len(ctxLog) < 5 THEN Len(ctxLog) ELSE 5
  IN /\ Len(msgs) <= 5
     /\ msgs = Newest(ctxLog, n)
     /\ Ids(ctxLog) = <<1, 2, 3, 4, 5, 6, 7>> => Ids(msgs) = <<7, 6, 5, 4, 3>>

\* Messages 1..7 were stored without a clear in between.
C22_Witness ==
  /\ Ids(ctxLog) = <<1, 2, 3, 4, 5, 6, 7>>
  /\ Ids(getStoredMessages(ctxEnv)) = <<7, 6, 5, 4, 3>>

\* C23: after storeMessage the newest entry is the whole message when the
\* message has at most 2000 characters; otherwise it is the first 2000 - 14
\* characters followed by the marker, at most 2000 characters in all.
C23_Truncation ==
  ctxLast = "store"
  => LET m == ctxLog[Len(ctxLog)]
         e == getStoredMessages(ctxEnv)[1]
     IN /\ e.id = m.id
        /\ entryLength(e) <= 2000
        /\ m.len <= 2000 => (e.kept = m.len /\ ~e.marked)
        /\ m.len > 2000 => (e.kept = 2000 - 14 /\ e.marked /\ e.kept < m.len)

\* A message of 2503 characters was stored as 1986 characters and the marker.
C23_Witness ==
  /\ ctxLast = "store" /\ ctxLog[Len(ctxLog)].len = 2503
  /\ getStoredMessages(ctxEnv)[1] = [id |-> ctxLog[Len(ctxLog)].id, kept |-> 1986, marked |-> TRUE]

\* C24: after clearContext no COMA_CONTEXT_n is set, getStoredMessages is
\* empty and getContextForAcolytes gives the fixed text.
C24_ClearEmpties ==
  ctxLast = "clear"
  => /\ \A i \in 0..4 : ctxEnv[i] = NoEntry
     /\ getStoredMessages(ctxEnv) = <<>>
     /\ getContextForAcolytes(ctxEnv).text = "No recent context available."
     /\ getContextForAcolytes(ctxEnv).items = <<>>

\* The buffer was cleared after six messages had filled it.
C24_Witness ==
  /\ ctxLast = "clear" /\ ctxStores = 6 /\ ctxLog = <<>> /\ ctxEnv = NoContext

\* C25: a run reads the context buffer at most once, and before any provider
\* call; every provider call is given the value read, and what a consultation
\* has received never changes, whatever is stored in the buffer meanwhile.
C25_SnapshotOnce ==
  /\ [](/\ contextReads <= 1
        /\ Len(calls) > 0 => contextReads = 1
        /\ Len(callContexts) = Len(calls)
        /\ \A i \in DOMAIN callContexts : callContexts[i] = claudeContext)
  /\ [][contextReads = 1 => (claudeContext' = claudeContext /\ callContexts' = callContexts)]_vars

\* Two consultations are over; one message was in the buffer when the run
\* read it and a second one was stored while the consultations were in flight.
C25_Witness ==
  /\ vpc = "done" /\ Len(calls) = 2 /\ contextReads = 1
  /\ Ids(claudeContext.items) = <<1>>
  /\ Ids(getStoredMessages(ctxEnv)) = <<2, 1>>
  /\ callContexts = <<claudeContext, claudeContext>>

\* C30: the provider's consult operation is invoked once for each selected
\* critic, in order, and for no other critic.
C30_OneCallPerSelected ==
  (vpc \in {"consulting", "done"} /\ Constructed /\ ~noReviewNeeded(relevantAcolytes))
  => calls = [i \in 1..Len(relevantAcolytes) |-> relevantAcolytes[i].id]

\* The results of a collection with a decision in D, in collection order.
Those(rs, D) == SelectSeq(rs, LAMBDA r : r.decision \in D)
Known == {"APPROVE", "REJECT", "ERROR"}

Reorderings(n) == {f \in [1..n -> 1..n] : \A i, j \in 1..n : f[i] = f[j] => i = j}

\* C28: every permutation of a collection gets the same approved flag and
\* the same rule as the collection.
C28_OrderIndependent ==
  vpc = "evaluated"
  => \A f \in Reorderings(Len(results)) :
       LET permuted == [i \in 1..Len(results) |-> results[f[i]]]
       IN /\ evaluateConsensus(permuted).approved = decision.approved
          /\ evaluateConsensus(permuted).rule = decision.rule

\* An ERROR before a REJECT was judged a rejection, as REJECT before ERROR is.
C28_Witness ==
  /\ vpc = "evaluated" /\ Len(results) = 2
  /\ results[1].decision = "ERROR" /\ results[2].decision = "REJECT"
  /\ decision.rule = "rejection"
  /\ evaluateConsensus(<<results[2], results[1]>>).rule = "rejection"

\* C29: in both versions of evaluateConsensus a collection that is not
\* approved stays not approved when a result is added, and a collection whose
\* added result is not APPROVE is not approved.
C29_BlockingMonotone ==
  vpc = "parsed"
  => LET before == SubSeq(results, 1, Len(results) - 1)
         added == results[Len(results)]
     IN /\ ~evaluateConsensus(before).approved => ~decision.approved
        /\ ~evaluateConsensusEarlier(before).approved => ~decisionEarlier.approved
        /\ added.decision # "APPROVE" => (~decision.approved /\ ~decisionEarlier.approved)


\* What a call resolves with when it is given what its own reviewer sent.
ownOutcome(class, c) ==
  IF class = "openai" THEN parseResponse(contentOrDefault(c.sent))
  ELSE closeValue(class, c.sent)

\* C26: consult calls in flight on one provider instance do not meet. No
\* step changes the instance, whose repoPath is the cwd of every reviewer
\* spawned; a step of one call leaves the locals of every other call alone;
\* and a call's outcome is that of its own reviewer, timer and exit code.
C26_Reentrant ==
  /\ [](\A i \in DOMAIN pcalls :
          LET c == pcalls[i]
          IN /\ (c.proc # "none" /\ pinst.class \in ProcessVariants)
                  => c.cwd = pinst.repoPath
             /\ c.output = c.sent
             /\ c.promise = "resolved" => c.value = ownOutcome(pinst.class, c)
             /\ c.promise = "rejected"
                  => \/ c.value = <<"timed out">> /\ c.timer = "fired"
                     \/ c.value = <<"agent failed">> /\ c.code \in {"1", "null"}
                     \/ c.value = <<"failed to spawn">> /\ c.proc \in {"errored", "closed"}
                     \/ c.value = <<"OpenAI API error">> /\ c.proc = "errored"
                     \/ c.value = <<"failed to start">> /\ c.proc = "none")
  /\ [][/\ pinst' = pinst
        /\ \A i, j \in DOMAIN pcalls :
             (i # j /\ pcalls'[i] # pcalls[i]) => pcalls'[j] = pcalls[j]]_vars

\* The second call resolved with its reviewer's REJECT while the first call,
\* whose reviewer has sent APPROVE, is still pending.
C26_Witness ==
  /\ pinst.class = "claude-code" /\ Len(pcalls) >= 2
  /\ pcalls[1].promise = "pending" /\ pcalls[1].sent = <<"APPROVE">>
  /\ pcalls[2].promise = "resolved" /\ pcalls[2].value = <<"REJECT">>
  /\ pcalls[2].cwd = pinst.repoPath


\* C31: the collection consultAcolytes returns has one result per selected
\* critic, the i-th with the id and file of the i-th selected critic, in
\* whatever order the consultations settled.
C31_ResultsInCriticOrder ==
  (vpc = "done" /\ decision # NoDecision)
  => /\ Len(results) = Len(relevantAcolytes)
     /\ \A i \in DOMAIN results :
          /\ results[i].decision # "PENDING"
          /\ results[i].acolyteId = relevantAcolytes[i].id
          /\ results[i].file = relevantAcolytes[i].file

\* Two critics with different files were consulted; the second settled (by
\* failing) before the first, and the collection was returned.
C31_Witness ==
  /\ vpc = "done" /\ decision # NoDecision
  /\ Len(results) = 2 /\ overtaken
  /\ relevantAcolytes[1].file # relevantAcolytes[2].file
  /\ results[2].decision = "ERROR" /\ results[1].decision = "APPROVE"


\* C32: in the process variants the first of the events timer, close and
\* spawn error fixes the outcome of a consult call: a settled promise keeps
\* its state and value, a closed or errored process leaves no armed timer,
\* and from then on the timer does not fire.
C32_FirstEventWins ==
  /\ [](pvariant \in ProcessVariants
          => (pproc \in {"closed", "errored"} => ptimer # "armed"))
  /\ [][(pvariant \in ProcessVariants)
          => ( /\ ppromise \in {"resolved", "rejected"}
                    => (ppromise' = ppromise /\ pvalue' = pvalue)
               /\ pproc \in {"closed", "errored"}
                    => (ptimer' = ptimer /\ ptimer' # "armed") )]_vars

\* The timer fired first; the reviewer then closed with code 0 and output,
\* and the call is still rejected with the time-out error.
C32_Witness ==
  /\ pvariant \in ProcessVariants
  /\ ptimer = "fired" /\ pproc = "closed" /\ pcode = "0" /\ poutput # <<>>
  /\ ppromise = "rejected" /\ pvalue = <<"timed out">>


\* C33: for an active PreToolUse event the router exits 0 only if the
\* validator child exited with status 0; a child ended by a signal or not
\* spawned gives a status other than 0.
C33_RouterExitFollowsValidator ==
  (rpc = "done" /\ comaFlag = "set" /\ hookType = "PreToolUse")
  => /\ rexit = 0 => (vpc = "done" /\ vexit = 0)
     /\ vpc \in {"killed", "unspawned"} => rexit # 0


\* C34: the context a PreToolUse validation passes to its critics holds the
\* messages the capture hooks of the session stored before it, the newest
\* MaxMessages of them, newest first.
C34_CapturedContextReachesCritics ==
  (vpc = "session" /\ ctxLast = "read")
  => LET n == IF Len(ctxLog) < MaxMessages THEN Len(ctxLog) ELSE MaxMessages
     IN claudeContext.items = Newest(ctxLog, n)


\* C35: what one ContextManager instance stores, every instance of the
\* process returns, and a clear through one instance empties the buffer for
\* all of them.
C35_BufferSharedByInstances ==
  vpc = "context"
  => \A mgr \in Managers :
       LET n == IF Len(ctxLog) < MaxMessages THEN Len(ctxLog) ELSE MaxMessages
       IN /\ messagesVia(mgr, ctxEnv) = Newest(ctxLog, n)
          /\ ctxLast = "clear" => messagesVia(mgr, ctxEnv) = <<>>

\* After a clear the first instance stored one message, and the second
\* instance returns that message.
C35_Witness ==
  /\ vpc = "context" /\ ctxLast = "store" /\ ctxVia = 1 /\ Len(ctxLog) = 1
  /\ ctxStores > 1
  /\ messagesVia(2, ctxEnv) = <<truncate(ctxLog[1])>>


\* C36: after the validator has exited, every line it passed to debugLog is
\* in the debug log file, the last one before process.exit included.
C36_DebugLinesFlushed ==
  (vpc = "done" /\ Constructed) => logFile = debugLogCalls


\* A settings file holds a hook of one of the launchers.
HasComaHook(file) == \E e \in EventNames : file.hooks[e] \in {"temp", "coma", "bin"}

\* C37: installHooks followed by removeHooks leaves settings.json as it was
\* found, whatever was found, and with no COMA hook and no _comaActive marker.
C37_InstallRemoveRoundTrip ==
  lpc = "removed"
  => /\ settings = settingsBefore
     /\ ~HasComaHook(settings) /\ ~settings.comaActive

\* C38: ensureHooksInstalled keeps every top-level key and every hook entry
\* that was there, adds the COMA hooks, and writes nothing when the COMA hooks
\* it installs are already there.
C38_EnsureKeepsSettings ==
  lpc \in {"setup", "launch", "done", "failed"}
  => LET before == readSettings(settingsBefore)
     IN /\ settings.other = before.other /\ settings.mcps = before.mcps
        /\ settings.comaActive = before.comaActive
        /\ \A e \in EventNames :
             before.hooks[e] # "none" => settings.hooks[e] = before.hooks[e]
        /\ \A e \in ComaEvents : settings.hooks[e] \in {"coma", before.hooks[e]}
        /\ (\A e \in ComaEvents : before.hooks[e] = "coma") => settingsWrites = 0

\* C39: when runWithProtection has finished, by the agent's exit, a failed
\* launch or a failed critic setup, .coma-temp does not exist.
C39_TempDirRemoved ==
  lpc \in {"done", "failed"} => ~tempDir

====
